---- MODULE Spec2Model ----
(***************************************************************************)
(* Inference job scheduler of badc (`badc infer run`): the worker pool of  *)
(* _run_scheduler (src/badc/cli/main.py), the attempt/backoff loop of      *)
(* run_job (src/badc/hawkears_runner.py) and the end of infer_run that     *)
(* writes the run summary.                                                 *)
(*                                                                         *)
(* A job is identified by its row number in the manifest; its chunk_id and *)
(* recording_id are the row's columns, and nothing in load_jobs makes two  *)
(* rows differ in chunk_id.  The telemetry log is kept as its per-job      *)
(* projections (the events one run_job call appended, in order).           *)
(***************************************************************************)
EXTENDS Integers, Sequences, FiniteSets, TLC

\* ---------------------------------------------------------------- bounds
\* Scheduler runs (Spec): jobs plus worker slots of a run (the items put on
\* the queue), and the largest retry budget.
MaxQueue == 4
MaxSchedulerRetries == 1
\* Runs with a deep retry loop (SpecRunJob): the same two bounds.
MaxRunJobQueue == 3
MaxRetries == 3
\* Runs checked for termination (SpecTermination): the same two bounds.
MaxTerminationQueue == 3
MaxTerminationRetries == 1
\* Probe runs: the evaluations one call may make before the model stops
\* following it (the search has no limit of its own).
MaxProbeAttempts == 16

\* ------------------------------------------------------- program constants
BackoffCap == 5
BackoffBase == 2

\* ------------------------------------------------------------ input space
\* An optional value: <<>> is None, <<x>> is the value x.
None == <<>>
Some(x) == <<x>>

Sentinel == 0

\* load_jobs: one InferenceJob per manifest row, in file order.
InferenceJob(rec, chunk) == [recording_id |-> rec, chunk_id |-> chunk]

\* The manifests the runs are started on.  DistinctChunks(n): n chunks of one
\* recording.  SharedChunk(n): n recordings whose chunks carry the same
\* chunk_id (the result path {recording_id}/{chunk_id}.json keeps them apart).
DistinctChunks(n) == [i \in 1..n |-> InferenceJob(1, i)]
SharedChunk(n) == [i \in 1..n |-> InferenceJob(i, 1)]
Manifests(maxJobs) ==
  { DistinctChunks(n) : n \in 0..maxJobs } \cup { SharedChunk(n) : n \in 2..maxJobs }

\* --max-retries is an integer option with no lower limit.
RetryBudgets(maxBudget) == (0 - 1)..maxBudget

\* runner_label of run_job.
RunnerLabels == {"stub", "custom", "hawkears"}

VARIABLES
  manifest,       \* job_contexts: the jobs, in manifest order
  nworkers,       \* len(worker_pool) after the empty-pool default
  max_retries,    \* retry budget handed to run_job
  runner_label,   \* "stub", "custom" or "hawkears"
  job_queue,      \* queue.Queue contents: job numbers, then sentinels
  unfinished,     \* queue.Queue.unfinished_tasks
  stop_event,     \* threading.Event
  errors,         \* list of captured exceptions
  stats,          \* per-worker counters
  job_results,    \* chunk_id -> outcome
  pc,             \* per worker: position in worker_loop / run_job
  item,           \* per worker: the item it dequeued
  attempts,       \* per worker: run_job's local attempts
  job_result,     \* per worker: value run_job returned
  exc,            \* per worker: exception propagating out of run_job
  telemetry,      \* per job: events appended for it, in order
  sleeps,         \* per job: the time.sleep durations of its run_job call
  result_files,   \* set of [recording_id, chunk_id] result files written
  main_pc,        \* main thread: position in _run_scheduler / infer_run
  raised,         \* exception _run_scheduler raised (None if none)
  scheduler_summary, \* value _run_scheduler returned (None if none)
  summary_file,   \* run summary on disk (None if absent)
  started,        \* per job: number of run_job calls made for it
  outcome,        \* per job: how its run_job call ended, and with what
  deq_after_stop, \* per job: dequeued while stop_event was set
  late_start      \* jobs whose run_job call began after an error was caught

\* log_telemetry called from several threads (telemetry.py)
VARIABLES
  log_file,       \* the log on disk: the pieces written to it, in file order
  log_todo,       \* per thread: number of log calls it still has to make
  log_pc,         \* per thread: position in log_telemetry
  log_pending,    \* per thread: the write(2) calls its close has yet to issue
  log_done        \* per thread: number of log calls that returned

logvars == << log_file, log_todo, log_pc, log_pending, log_done >>

\* the resume filter of infer_run (main.py)
VARIABLES
  resume_summary,   \* the "jobs" object of the summary file: chunk_id -> entry
  resume_manifest,  \* the jobs load_jobs returned for this run
  resume_jobs,      \* infer_run's local jobs
  resume_entries,   \* infer_run's local resume_entries
  resume_pc,        \* position in infer_run
  skipped_msg,      \* the count printed as skipped (None when nothing is printed)
  orphaned_msg,     \* the count printed as orphaned (None when nothing is printed)
  resume_runs,      \* number of runs started with this summary
  resume_first      \* the jobs the first run was left with (None before)

resumevars == << resume_summary, resume_manifest, resume_jobs, resume_entries,
                 resume_pc, skipped_msg, orphaned_msg, resume_runs, resume_first >>

\* worker planning of infer_run (main.py, infer_scheduler.py)
VARIABLES
  gpu_inventory,    \* the GPUs detect_gpus found, in nvidia-smi order
  max_gpus,         \* --max-gpus (None when not given)
  cpu_workers,      \* --cpu-workers
  gpu_workers,      \* the list plan_workers returned
  worker_slots,     \* infer_run's local worker_slots
  worker_pool,      \* _run_scheduler's worker_pool after its default
  pool_pc           \* position in infer_run / _run_scheduler

poolvars == << gpu_inventory, max_gpus, cpu_workers, gpu_workers, worker_slots,
               worker_pool, pool_pc >>

\* probe_chunk_duration (chunking.py)
VARIABLES
  probe_args,       \* initial_duration_s, max_duration_s (None when absent), tolerance_s
  wav_meta,         \* _read_wav_metadata: duration_s, sample_rate, channels, sample_width_bytes
  probe_gpu,        \* the GPU _select_gpu picked (None when none was detected)
  probe_pc,         \* position in probe_chunk_duration
  max_duration,     \* local max_duration
  low_success,      \* local low_success
  high_failure,     \* local high_failure
  candidate,        \* local candidate
  fits,             \* local fits
  probe_attempts,   \* local attempts
  probe_log,        \* lines of the probe log file
  probe_result,     \* the ChunkProbeResult returned (None before)
  probe_error       \* the exception raised (None if none)

probevars == << probe_args, wav_meta, probe_gpu, probe_pc, max_duration,
                low_success, high_failure, candidate, fits, probe_attempts,
                probe_log, probe_result, probe_error >>

\* worker threads recording the outcomes of their run_job calls, statement
\* by statement (worker_loop, main.py)
VARIABLES
  upd_label,        \* per thread: its label in worker_pool
  upd_outcome,      \* per thread: how its run_job call ends, and for which chunk
  upd_pc,           \* per thread: position in worker_loop
  upd_fields,       \* per thread: the counters it has yet to update
  upd_read,         \* per thread: the value `+=` read and has yet to write back
  stats_lock,       \* stats_lock: the thread holding it (None when free)
  job_lock,         \* job_lock: the thread holding it (None when free)
  shared_stats,     \* stats: label -> counters
  shared_results,   \* job_results: chunk_id -> entry
  shared_errors,    \* errors
  shared_stop       \* stop_event

lockvars == << upd_label, upd_outcome, upd_pc, upd_fields, upd_read,
               stats_lock, job_lock, shared_stats, shared_results,
               shared_errors, shared_stop >>

\* infer orchestrate --resume-completed, run again and again on one
\* telemetry log path (main.py)
VARIABLES
  runs_manifest,    \* the rows of the recording's manifest
  runs_summary,     \* the "jobs" object of the summary at the derived path (None when absent)
  runs_pc,          \* position in infer_orchestrate / infer_run
  runs_jobs,        \* infer_run's local jobs
  runs_count,       \* number of runs started
  runs_history,     \* what happened so far: runs that completed, failed, had nothing to do; manifest growth
  runs_succeeded,   \* the jobs that succeeded in some run so far
  runs_repeated     \* the jobs executed in a run after they had succeeded in an earlier one

runsvars == << runs_manifest, runs_summary, runs_pc, runs_jobs, runs_count,
               runs_history, runs_succeeded, runs_repeated >>

\* the variables of _run_scheduler and run_job
schedvars == << manifest, nworkers, max_retries, runner_label, job_queue,
                unfinished, stop_event, errors, stats, job_results, pc, item,
                attempts, job_result, exc, telemetry, sleeps, result_files,
                main_pc, raised, scheduler_summary, summary_file, started,
                outcome, deq_after_stop, late_start >>

\* the variables of the other parts of the program, which a scheduler run
\* leaves alone
othervars == << logvars, resumevars, poolvars, probevars, lockvars,
               runsvars >>

vars == << schedvars, othervars >>

inputs == << manifest, nworkers, max_retries, runner_label, othervars >>
mainvars == << main_pc, raised, scheduler_summary, summary_file >>

Jobs == DOMAIN manifest
Workers == 1..nworkers

\* ------------------------------------------------------- pure helpers

\* `if not worker_pool: worker_pool = [(None, "cpu-0")]`
EffectivePool(n) == IF n = 0 THEN 1 ELSE n

\* 2 ** n
RECURSIVE Pow(_, _)
Pow(b, n) == IF n <= 0 THEN 1 ELSE b * Pow(b, n - 1)

Min(a, b) == IF a <= b THEN a ELSE b
Max(a, b) == IF a >= b THEN a ELSE b

\* A file name as the sequence of its pieces; "." is the dot.
\* PurePath.suffix: the part from the last dot on, unless that dot is the
\* first or the last piece of the name.
RECURSIVE LastDot(_, _)
LastDot(name, i) ==
  IF i = 0 THEN 0 ELSE IF name[i] = "." THEN i ELSE LastDot(name, i - 1)
Suffix(name) ==
  LET i == LastDot(name, Len(name)) IN
    IF 1 < i /\ i < Len(name) THEN SubSeq(name, i, Len(name)) ELSE <<>>

\* PurePath.with_suffix(suffix)
WithSuffix(name, suffix) ==
  IF Suffix(name) = <<>> THEN name \o suffix
  ELSE SubSeq(name, 1, Len(name) - Len(Suffix(name))) \o suffix

\* ".summary.json"
SummarySuffix == << ".", "summary", ".", "json" >>

\* telemetry_path.with_suffix(telemetry_path.suffix + ".summary.json")
TelemetrySummaryPath(name) == WithSuffix(name, Suffix(name) \o SummarySuffix)

\* time.sleep(min(2**attempts, 5))
BackoffMut(a) == Pow(BackoffBase, a)
Backoff(a) == Min(Pow(BackoffBase, a), BackoffCap)

\* `while attempts <= max_retries`
LoopContinuesMut(a, budget) == a < budget
LoopContinues(a, budget) == a <= budget

\* `if attempts > max_retries: raise JobExecutionError(...)`
BudgetExhaustedMut(a, budget) == a >= budget
BudgetExhausted(a, budget) == a > budget

\* JobResult(output_path, attempts, retries=max(attempts - 1, 0))
JobResultMut(job, a) ==
  [output_path |-> [recording_id |-> manifest[job].recording_id,
                    chunk_id |-> manifest[job].chunk_id],
   attempts |-> a, retries |-> a]
JobResult(job, a) ==
  [output_path |-> [recording_id |-> manifest[job].recording_id,
                    chunk_id |-> manifest[job].chunk_id],
   attempts |-> a, retries |-> Max(a - 1, 0)]

\* JobExecutionError(job.chunk_id, attempts, exc): original is the
\* CalledProcessError of the attempt named.
JobExecutionErrorMut(job, a, cause) ==
  [kind |-> "JobExecutionError", chunk_id |-> manifest[job].chunk_id,
   attempts |-> Some(a), original |-> Some(1), job |-> job]
JobExecutionError(job, a, cause) ==
  [kind |-> "JobExecutionError", chunk_id |-> manifest[job].chunk_id,
   attempts |-> Some(a), original |-> Some(cause), job |-> job]

\* Any other exception leaving run_job (the command cannot be started, ...).
OtherError(job) ==
  [kind |-> "Exception", chunk_id |-> manifest[job].chunk_id,
   attempts |-> None, original |-> None, job |-> job]

\* log_scheduler_event: one record appended to the log.  run_job passes the
\* log's path as telemetry_path; the function as it stands in infer_scheduler
\* takes no such keyword and writes to a fixed path.  Either way one call
\* appends one record, which is what is modelled.
TelemetryRecord(job, status, a) ==
  [chunk_id |-> manifest[job].chunk_id, status |-> status, attempt |-> a]

\* stop_event.is_set()
IsSetMut(flag) == FALSE
IsSet(flag) == flag

\* job_queue.get(): the queue after the head was removed.
DequeueMut(q) == q
Dequeue(q) == Tail(q)

\* `if errors:` / `raise errors[0]`
HasErrorsMut(errs) == FALSE
HasErrors(errs) == errs # <<>>
FirstErrorMut(errs) == errs[Len(errs)]
FirstError(errs) == errs[1]

\* job_results[job.chunk_id] = {...}
Put(map, key, value) == [k \in DOMAIN map \cup {key} |-> IF k = key THEN value ELSE map[k]]

SuccessEntry(job, res, w) ==
  [status |-> "success",
   attempts |-> IF res = None THEN None ELSE Some(res[1].attempts),
   retries |-> IF res = None THEN None ELSE Some(res[1].retries),
   worker |-> w, recording_id |-> manifest[job].recording_id]

FailureEntry(job, e, w) ==
  [status |-> "failure", error |-> e.kind, attempts |-> e.attempts,
   worker |-> w, recording_id |-> manifest[job].recording_id]

\* How a run_job call ended: not yet, with a return value (None or a
\* JobResult), or with an exception; and the worker thread that made it.
Pending == [kind |-> "pending"]
Returned(res, w) == [kind |-> "returned", value |-> res, worker |-> w]
Raised(e, w) == [kind |-> "raised", error |-> e, worker |-> w]

ZeroStats == [success |-> 0, failure |-> 0, retries |-> 0, failed_retries |-> 0]

\* ------------------------------------------------------------------ Init

\* `for context in job_contexts: job_queue.put(context)`, then
\* `for _ in worker_pool: job_queue.put(sentinel)`
QueuedItemsReversed(njobs, nslots) ==
  [i \in 1..(njobs + nslots) |-> IF i <= njobs THEN njobs + 1 - i ELSE Sentinel]
QueuedItemsMut(njobs, nslots) ==
  [i \in 1..(njobs + 1) |-> IF i <= njobs THEN i ELSE Sentinel]
QueuedItems(njobs, nslots) ==
  [i \in 1..(njobs + nslots) |-> IF i <= njobs THEN i ELSE Sentinel]

InitWith(maxQueue, maxBudget) ==
  /\ manifest \in Manifests(maxQueue - 1)
  /\ \E n \in 0..maxQueue : /\ nworkers = EffectivePool(n)
                           /\ Len(manifest) + nworkers <= maxQueue
  /\ max_retries \in RetryBudgets(maxBudget)
  /\ runner_label \in RunnerLabels
  /\ job_queue = QueuedItems(Len(manifest), nworkers)
  /\ unfinished = Len(manifest) + nworkers
  /\ stop_event = FALSE
  /\ errors = <<>>
  /\ stats = [w \in Workers |-> ZeroStats]
  /\ job_results = <<>>
  /\ pc = [w \in Workers |-> "get"]
  /\ item = [w \in Workers |-> Sentinel]
  /\ attempts = [w \in Workers |-> 0]
  /\ job_result = [w \in Workers |-> None]
  /\ exc = [w \in Workers |-> None]
  /\ telemetry = [j \in Jobs |-> <<>>]
  /\ sleeps = [j \in Jobs |-> <<>>]
  /\ result_files = {}
  /\ main_pc = "join_queue"
  /\ raised = None
  /\ scheduler_summary = None
  /\ summary_file = None
  /\ started = [j \in Jobs |-> 0]
  /\ outcome = [j \in Jobs |-> Pending]
  /\ deq_after_stop = [j \in Jobs |-> FALSE]
  /\ late_start = {}


\* ------------------------------------------------- worker_loop (per thread)

TaskDone == unfinished' = unfinished - 1

\* item = job_queue.get()
Get(w) ==
  /\ pc[w] = "get"
  /\ job_queue # <<>>
  /\ item' = [item EXCEPT ![w] = Head(job_queue)]
  /\ job_queue' = Dequeue(job_queue)
  /\ pc' = [pc EXCEPT ![w] = "dispatch"]
  /\ deq_after_stop' =
       IF Head(job_queue) # Sentinel
       THEN [deq_after_stop EXCEPT ![Head(job_queue)] = stop_event]
       ELSE deq_after_stop
  /\ UNCHANGED << inputs, unfinished, stop_event, errors, stats, job_results,
                  attempts, job_result, exc, telemetry, sleeps, result_files,
                  mainvars, started, outcome, late_start >>

\* `if item is sentinel: return` (finally: task_done)
ExitOnSentinel(w) ==
  /\ pc[w] = "dispatch"
  /\ item[w] = Sentinel
  /\ TaskDone
  /\ pc' = [pc EXCEPT ![w] = "exited"]
  /\ UNCHANGED << inputs, job_queue, stop_event, errors, stats, job_results,
                  item, attempts, job_result, exc, telemetry, sleeps,
                  result_files, mainvars, started, outcome, deq_after_stop,
                  late_start >>

\* `if stop_event.is_set(): continue` (finally: task_done)
SkipStoppedMut(w) ==
  /\ pc[w] = "dispatch"
  /\ item[w] # Sentinel
  /\ IsSet(stop_event)
  /\ TaskDone
  /\ pc' = [pc EXCEPT ![w] = "get"]
  /\ stats' = [stats EXCEPT ![w].failure = @ + 1]
  /\ UNCHANGED << inputs, job_queue, stop_event, errors, job_results,
                  item, attempts, job_result, exc, telemetry, sleeps,
                  result_files, mainvars, started, outcome, deq_after_stop,
                  late_start >>
SkipStopped(w) ==
  /\ pc[w] = "dispatch"
  /\ item[w] # Sentinel
  /\ IsSet(stop_event)
  /\ TaskDone
  /\ pc' = [pc EXCEPT ![w] = "get"]
  /\ UNCHANGED << inputs, job_queue, stop_event, errors, stats, job_results,
                  item, attempts, job_result, exc, telemetry, sleeps,
                  result_files, mainvars, started, outcome, deq_after_stop,
                  late_start >>

\* the flag was clear: the worker goes on to call run_job
PassCheck(w) ==
  /\ pc[w] = "dispatch"
  /\ item[w] # Sentinel
  /\ ~IsSet(stop_event)
  /\ pc' = [pc EXCEPT ![w] = "call"]
  /\ UNCHANGED << inputs, job_queue, unfinished, stop_event, errors, stats,
                  job_results, item, attempts, job_result, exc, telemetry,
                  sleeps, result_files, mainvars, started, outcome,
                  deq_after_stop, late_start >>

\* ------------------------------------------------------------- run_job

\* run_job is entered: attempts = 0 and the loop condition holds
EnterRunJob(w) ==
  /\ pc[w] = "call"
  /\ LoopContinues(0, max_retries)
  /\ attempts' = [attempts EXCEPT ![w] = 0]
  /\ started' = [started EXCEPT ![item[w]] = @ + 1]
  /\ late_start' = IF errors # <<>> THEN late_start \cup {item[w]} ELSE late_start
  /\ pc' = [pc EXCEPT ![w] = "attempt"]
  /\ UNCHANGED << inputs, job_queue, unfinished, stop_event, errors, stats,
                  job_results, item, job_result, exc, telemetry, sleeps,
                  result_files, mainvars, outcome, deq_after_stop >>

\* run_job is entered with a budget below zero: the loop body never runs and
\* the function falls off its end, returning None
ReturnWithoutAttempt(w) ==
  /\ pc[w] = "call"
  /\ ~LoopContinues(0, max_retries)
  /\ attempts' = [attempts EXCEPT ![w] = 0]
  /\ started' = [started EXCEPT ![item[w]] = @ + 1]
  /\ late_start' = IF errors # <<>> THEN late_start \cup {item[w]} ELSE late_start
  /\ job_result' = [job_result EXCEPT ![w] = None]
  /\ outcome' = [outcome EXCEPT ![item[w]] = Returned(None, w)]
  /\ pc' = [pc EXCEPT ![w] = "ok"]
  /\ UNCHANGED << inputs, job_queue, unfinished, stop_event, errors, stats,
                  job_results, item, exc, telemetry, sleeps, result_files,
                  mainvars, deq_after_stop >>

\* attempts += 1; log_scheduler_event(..., "start", {"attempt": attempts})
StartAttempt(w) ==
  /\ pc[w] = "attempt"
  /\ attempts' = [attempts EXCEPT ![w] = @ + 1]
  /\ telemetry' = [telemetry EXCEPT ![item[w]] =
                     Append(@, TelemetryRecord(item[w], "start", attempts[w] + 1))]
  /\ pc' = [pc EXCEPT ![w] = "exec"]
  /\ UNCHANGED << inputs, job_queue, unfinished, stop_event, errors, stats,
                  job_results, item, job_result, exc, sleeps, result_files,
                  mainvars, started, outcome, deq_after_stop, late_start >>

\* the attempt succeeded (stub payload written, or the detector exited 0 and
\* its output was written): "success" event, return JobResult
AttemptSucceedsMut(w) ==
  /\ pc[w] = "exec"
  /\ result_files' = result_files \cup
       {[recording_id |-> manifest[item[w]].recording_id,
         chunk_id |-> manifest[item[w]].chunk_id]}
  /\ job_result' = [job_result EXCEPT ![w] = Some(JobResult(item[w], attempts[w]))]
  /\ outcome' = [outcome EXCEPT ![item[w]] = Returned(Some(JobResult(item[w], attempts[w])), w)]
  /\ pc' = [pc EXCEPT ![w] = "ok"]
  /\ UNCHANGED << inputs, job_queue, unfinished, stop_event, errors, stats,
                  job_results, item, attempts, exc, telemetry, sleeps, mainvars,
                  started, deq_after_stop, late_start >>
AttemptSucceeds(w) ==
  /\ pc[w] = "exec"
  /\ result_files' = result_files \cup
       {[recording_id |-> manifest[item[w]].recording_id,
         chunk_id |-> manifest[item[w]].chunk_id]}
  /\ telemetry' = [telemetry EXCEPT ![item[w]] =
                     Append(@, TelemetryRecord(item[w], "success", attempts[w]))]
  /\ job_result' = [job_result EXCEPT ![w] = Some(JobResult(item[w], attempts[w]))]
  /\ outcome' = [outcome EXCEPT ![item[w]] = Returned(Some(JobResult(item[w], attempts[w])), w)]
  /\ pc' = [pc EXCEPT ![w] = "ok"]
  /\ UNCHANGED << inputs, job_queue, unfinished, stop_event, errors, stats,
                  job_results, item, attempts, exc, sleeps, mainvars, started,
                  deq_after_stop, late_start >>

\* subprocess.CalledProcessError with retries left: "failure" event, then
\* time.sleep(min(2**attempts, 5)) and the loop condition is tested again
\* (when it fails the function falls off its end and returns None)
AttemptFailsRetry(w) ==
  /\ pc[w] = "exec"
  /\ runner_label # "stub"
  /\ ~BudgetExhausted(attempts[w], max_retries)
  /\ telemetry' = [telemetry EXCEPT ![item[w]] =
                     Append(@, TelemetryRecord(item[w], "failure", attempts[w]))]
  /\ sleeps' = [sleeps EXCEPT ![item[w]] = Append(@, Backoff(attempts[w]))]
  /\ IF LoopContinues(attempts[w], max_retries)
     THEN /\ pc' = [pc EXCEPT ![w] = "attempt"]
          /\ UNCHANGED << job_result, outcome >>
     ELSE /\ pc' = [pc EXCEPT ![w] = "ok"]
          /\ job_result' = [job_result EXCEPT ![w] = None]
          /\ outcome' = [outcome EXCEPT ![item[w]] = Returned(None, w)]
  /\ UNCHANGED << inputs, job_queue, unfinished, stop_event, errors, stats,
                  job_results, item, attempts, exc, result_files,
                  mainvars, started, deq_after_stop, late_start >>

\* subprocess.CalledProcessError with the budget spent: "failure" event, then
\* raise JobExecutionError(job.chunk_id, attempts, exc)
AttemptFailsFinal(w) ==
  /\ pc[w] = "exec"
  /\ runner_label # "stub"
  /\ BudgetExhausted(attempts[w], max_retries)
  /\ telemetry' = [telemetry EXCEPT ![item[w]] =
                     Append(@, TelemetryRecord(item[w], "failure", attempts[w]))]
  /\ exc' = [exc EXCEPT ![w] = Some(JobExecutionError(item[w], attempts[w], attempts[w]))]
  /\ outcome' = [outcome EXCEPT ![item[w]] =
                   Raised(JobExecutionError(item[w], attempts[w], attempts[w]), w)]
  /\ pc' = [pc EXCEPT ![w] = "except"]
  /\ UNCHANGED << inputs, job_queue, unfinished, stop_event, errors, stats,
                  job_results, item, attempts, job_result, sleeps,
                  result_files, mainvars, started, deq_after_stop, late_start >>

\* any other exception of the attempt (subprocess.run cannot start the
\* command, ...): it is not caught in run_job, and no event is logged
AttemptCrashes(w) ==
  /\ pc[w] = "exec"
  /\ runner_label # "stub"
  /\ exc' = [exc EXCEPT ![w] = Some(OtherError(item[w]))]
  /\ outcome' = [outcome EXCEPT ![item[w]] = Raised(OtherError(item[w]), w)]
  /\ pc' = [pc EXCEPT ![w] = "except"]
  /\ UNCHANGED << inputs, job_queue, unfinished, stop_event, errors, stats,
                  job_results, item, attempts, job_result, telemetry, sleeps,
                  result_files, mainvars, started, deq_after_stop, late_start >>


\* ------------------------------------------ worker_loop, after run_job

\* getattr(job_result, "retries", 0)
RetriesOfMut(res) == IF res = None THEN 0 ELSE res[1].attempts
RetriesOf(res) == IF res = None THEN 0 ELSE res[1].retries

\* run_job returned: stats[label] under stats_lock, job_results[chunk_id]
\* under job_lock, then task_done
RecordSuccess(w) ==
  /\ pc[w] = "ok"
  /\ stats' = [stats EXCEPT ![w].success = @ + 1,
                            ![w].retries = @ + RetriesOf(job_result[w])]
  /\ job_results' = Put(job_results, manifest[item[w]].chunk_id,
                        SuccessEntry(item[w], job_result[w], w))
  /\ TaskDone
  /\ pc' = [pc EXCEPT ![w] = "get"]
  /\ job_result' = [job_result EXCEPT ![w] = None]
  /\ attempts' = [attempts EXCEPT ![w] = 0]
  /\ UNCHANGED << inputs, job_queue, stop_event, errors, item, exc, telemetry,
                  sleeps, result_files, mainvars, started, outcome,
                  deq_after_stop, late_start >>

\* `except Exception as exc: errors.append(exc)`
CatchError(w) ==
  /\ pc[w] = "except"
  /\ errors' = Append(errors, exc[w][1])
  /\ pc' = [pc EXCEPT ![w] = "set_stop"]
  /\ UNCHANGED << inputs, job_queue, unfinished, stop_event, stats, job_results,
                  item, attempts, job_result, exc, telemetry, sleeps,
                  result_files, mainvars, started, outcome, deq_after_stop,
                  late_start >>

\* stop_event.set()
SetStopMut(w) ==
  /\ pc[w] = "set_stop"
  /\ stop_event' = stop_event
  /\ pc' = [pc EXCEPT ![w] = "failed"]
  /\ UNCHANGED << inputs, job_queue, unfinished, errors, stats, job_results,
                  item, attempts, job_result, exc, telemetry, sleeps,
                  result_files, mainvars, started, outcome, deq_after_stop,
                  late_start >>
SetStop(w) ==
  /\ pc[w] = "set_stop"
  /\ stop_event' = TRUE
  /\ pc' = [pc EXCEPT ![w] = "failed"]
  /\ UNCHANGED << inputs, job_queue, unfinished, errors, stats, job_results,
                  item, attempts, job_result, exc, telemetry, sleeps,
                  result_files, mainvars, started, outcome, deq_after_stop,
                  late_start >>

\* max(exc.attempts - 1, 0) when exc is a JobExecutionError, else nothing
FailedRetriesOf(e) ==
  IF e.kind = "JobExecutionError" THEN Max(e.attempts[1] - 1, 0) ELSE 0

\* the failure is counted under stats_lock and stored under job_lock, then
\* task_done
RecordFailure(w) ==
  /\ pc[w] = "failed"
  /\ stats' = [stats EXCEPT ![w].failure = @ + 1,
                            ![w].failed_retries = @ + FailedRetriesOf(exc[w][1])]
  /\ job_results' = Put(job_results, manifest[item[w]].chunk_id,
                        FailureEntry(item[w], exc[w][1], w))
  /\ TaskDone
  /\ pc' = [pc EXCEPT ![w] = "get"]
  /\ exc' = [exc EXCEPT ![w] = None]
  /\ attempts' = [attempts EXCEPT ![w] = 0]
  /\ UNCHANGED << inputs, job_queue, stop_event, errors, item, job_result,
                  telemetry, sleeps, result_files, mainvars, started, outcome,
                  deq_after_stop, late_start >>

\* --------------------------------------- main thread of _run_scheduler

workervars == << job_queue, unfinished, stop_event, errors, stats, job_results,
                 pc, item, attempts, job_result, exc, telemetry, sleeps,
                 result_files, started, outcome, deq_after_stop, late_start >>

\* job_queue.join() returns once every queued item was marked done
QueueJoin ==
  /\ main_pc = "join_queue"
  /\ unfinished = 0
  /\ main_pc' = "join_threads"
  /\ UNCHANGED << inputs, workervars, raised, scheduler_summary, summary_file >>

\* `for thread in threads: thread.join()`
ThreadsJoin ==
  /\ main_pc = "join_threads"
  /\ \A w \in Workers : pc[w] = "exited"
  /\ main_pc' = "joined"
  /\ UNCHANGED << inputs, workervars, raised, scheduler_summary, summary_file >>

\* `if errors: raise errors[0]`; infer_run does not catch it
SchedulerRaises ==
  /\ main_pc = "joined"
  /\ HasErrors(errors)
  /\ raised' = Some(FirstError(errors))
  /\ main_pc' = "raised"
  /\ UNCHANGED << inputs, workervars, scheduler_summary, summary_file >>

\* `return {"workers": stats, "jobs": job_results}`
SchedulerReturns ==
  /\ main_pc = "joined"
  /\ ~HasErrors(errors)
  /\ scheduler_summary' = Some([workers |-> stats, jobs |-> job_results])
  /\ main_pc' = "returned"
  /\ UNCHANGED << inputs, workervars, raised, summary_file >>

\* infer_run: _write_scheduler_summary(job_summary=..., worker_summary=...)
WriteSummary ==
  /\ main_pc = "returned"
  /\ summary_file' = Some([workers |-> scheduler_summary[1].workers,
                           jobs |-> scheduler_summary[1].jobs])
  /\ main_pc' = "done"
  /\ UNCHANGED << inputs, workervars, raised, scheduler_summary >>

Next ==
  \/ \E w \in Workers : Get(w)
  \/ \E w \in Workers : ExitOnSentinel(w)
  \/ \E w \in Workers : SkipStopped(w)
  \/ \E w \in Workers : PassCheck(w)
  \/ \E w \in Workers : EnterRunJob(w)
  \/ \E w \in Workers : ReturnWithoutAttempt(w)
  \/ \E w \in Workers : StartAttempt(w)
  \/ \E w \in Workers : AttemptSucceeds(w)
  \/ \E w \in Workers : AttemptFailsRetry(w)
  \/ \E w \in Workers : AttemptFailsFinal(w)
  \/ \E w \in Workers : AttemptCrashes(w)
  \/ \E w \in Workers : RecordSuccess(w)
  \/ \E w \in Workers : CatchError(w)
  \/ \E w \in Workers : SetStop(w)
  \/ \E w \in Workers : RecordFailure(w)
  \/ QueueJoin
  \/ ThreadsJoin
  \/ SchedulerRaises
  \/ SchedulerReturns
  \/ WriteSummary

\* no thread is logging
LogIdle ==
  /\ log_file = <<>>
  /\ log_todo = <<>>
  /\ log_pc = <<>>
  /\ log_pending = <<>>
  /\ log_done = <<>>

\* infer_run is not filtering
ResumeIdle ==
  /\ resume_summary = <<>>
  /\ resume_manifest = <<>>
  /\ resume_jobs = <<>>
  /\ resume_entries = {}
  /\ resume_pc = "idle"
  /\ skipped_msg = None
  /\ orphaned_msg = None
  /\ resume_runs = 0
  /\ resume_first = None

\* infer_run is not planning workers
PoolIdle ==
  /\ gpu_inventory = <<>>
  /\ max_gpus = None
  /\ cpu_workers = 0
  /\ gpu_workers = <<>>
  /\ worker_slots = <<>>
  /\ worker_pool = <<>>
  /\ pool_pc = "idle"

\* probe_chunk_duration is not running
ProbeIdle ==
  /\ probe_args = <<>>
  /\ wav_meta = <<>>
  /\ probe_gpu = None
  /\ probe_pc = "idle"
  /\ max_duration = 0
  /\ low_success = 0
  /\ high_failure = 0
  /\ candidate = 0
  /\ fits = FALSE
  /\ probe_attempts = <<>>
  /\ probe_log = <<>>
  /\ probe_result = None
  /\ probe_error = None

\* no thread is recording an outcome statement by statement
LocksIdle ==
  /\ upd_label = <<>>
  /\ upd_outcome = <<>>
  /\ upd_pc = <<>>
  /\ upd_fields = <<>>
  /\ upd_read = <<>>
  /\ stats_lock = None
  /\ job_lock = None
  /\ shared_stats = <<>>
  /\ shared_results = <<>>
  /\ shared_errors = <<>>
  /\ shared_stop = FALSE

\* infer orchestrate is not running
RunsIdle ==
  /\ runs_manifest = <<>>
  /\ runs_summary = None
  /\ runs_pc = "idle"
  /\ runs_jobs = <<>>
  /\ runs_count = 0
  /\ runs_history = <<>>
  /\ runs_succeeded = {}
  /\ runs_repeated = {}

OthersIdle ==
  LogIdle /\ ResumeIdle /\ PoolIdle /\ ProbeIdle /\ LocksIdle /\ RunsIdle

Init == InitWith(MaxQueue, MaxSchedulerRetries) /\ OthersIdle
Spec == Init /\ [][Next]_vars

InitRunJob == InitWith(MaxRunJobQueue, MaxRetries) /\ OthersIdle
SpecRunJob == InitRunJob /\ [][Next]_vars

\* The scheduler under the operating system's scheduling: as long as some
\* thread can take a step, some thread does.  (A detector process is taken
\* to end, with either exit status.)
InitTermination == InitWith(MaxTerminationQueue, MaxTerminationRetries) /\ OthersIdle
SpecTermination == InitTermination /\ [][Next]_vars /\ WF_vars(Next)

\* no scheduler is running: an empty manifest, nothing queued
SchedulerIdle ==
  /\ manifest = <<>>
  /\ nworkers = 0
  /\ max_retries = 0
  /\ runner_label = "stub"
  /\ job_queue = <<>>
  /\ unfinished = 0
  /\ stop_event = FALSE
  /\ errors = <<>>
  /\ stats = <<>>
  /\ job_results = <<>>
  /\ pc = <<>>
  /\ item = <<>>
  /\ attempts = <<>>
  /\ job_result = <<>>
  /\ exc = <<>>
  /\ telemetry = <<>>
  /\ sleeps = <<>>
  /\ result_files = {}
  /\ main_pc = "idle"
  /\ raised = None
  /\ scheduler_summary = None
  /\ summary_file = None
  /\ started = <<>>
  /\ outcome = <<>>
  /\ deq_after_stop = <<>>
  /\ late_start = {}


\* ------------------------------------- log_telemetry under several threads
\* Each call opens the file in append mode, writes one line to the file
\* object (which buffers it) and closes it; the close flushes the buffer with
\* write(2) on a descriptor opened with O_APPEND, which places the bytes of
\* one call at the end of the file in one piece.  No lock is taken.

MaxLogThreads == 2
MaxLogCalls == 2

LogThreads == DOMAIN log_pc

\* json.dumps(asdict(record)) + "\n": the document, then the newline.  Each
\* piece carries the call it belongs to.
LogLine(t, k) ==
  << [thread |-> t, call |-> k, part |-> "json"],
     [thread |-> t, call |-> k, part |-> "newline"] >>

\* the write(2) calls that flush a buffer: the whole buffer in one call
RawWritesMut(buf) == [i \in 1..Len(buf) |-> << buf[i] >>]
RawWrites(buf) == << buf >>

InitLog ==
  /\ SchedulerIdle
  /\ LocksIdle
  /\ RunsIdle
  /\ ResumeIdle
  /\ PoolIdle
  /\ ProbeIdle
  /\ log_file = <<>>
  /\ \E n \in 1..MaxLogThreads :
       /\ log_todo \in [1..n -> 1..MaxLogCalls]
       /\ log_pc = [t \in 1..n |-> "idle"]
       /\ log_pending = [t \in 1..n |-> <<>>]
       /\ log_done = [t \in 1..n |-> 0]

\* out_path.open("a")
LogOpen(t) ==
  /\ log_pc[t] = "idle"
  /\ log_todo[t] > 0
  /\ log_pc' = [log_pc EXCEPT ![t] = "open"]
  /\ log_todo' = [log_todo EXCEPT ![t] = @ - 1]
  /\ UNCHANGED << schedvars, lockvars, runsvars, resumevars, poolvars, probevars, log_file, log_pending, log_done >>

\* fh.write(line): the line goes to the file object's buffer
LogWrite(t) ==
  /\ log_pc[t] = "open"
  /\ log_pending' = [log_pending EXCEPT ![t] = RawWrites(LogLine(t, log_done[t] + 1))]
  /\ log_pc' = [log_pc EXCEPT ![t] = "written"]
  /\ UNCHANGED << schedvars, lockvars, runsvars, resumevars, poolvars, probevars, log_file, log_todo, log_done >>

\* leaving the with block closes the file: each pending write(2) appends its
\* bytes at the end of the file; after the last one the call returns
LogClose(t) ==
  /\ log_pc[t] = "written"
  /\ log_file' = log_file \o Head(log_pending[t])
  /\ log_pending' = [log_pending EXCEPT ![t] = Tail(@)]
  /\ IF Tail(log_pending[t]) = <<>>
     THEN /\ log_pc' = [log_pc EXCEPT ![t] = "idle"]
          /\ log_done' = [log_done EXCEPT ![t] = @ + 1]
     ELSE UNCHANGED << log_pc, log_done >>
  /\ UNCHANGED << schedvars, lockvars, runsvars, resumevars, poolvars, probevars, log_todo >>

NextLog ==
  \/ \E t \in LogThreads : LogOpen(t)
  \/ \E t \in LogThreads : LogWrite(t)
  \/ \E t \in LogThreads : LogClose(t)

SpecLog == InitLog /\ [][NextLog]_vars


\* ----------------------------------------------- resume filter (infer_run)

MaxResumeJobs == 3

ResumeChunkIds == {1, 2}
ResumeRecordingIds == {1, 2}

\* An entry of the summary's jobs object: a JSON object with a status and a
\* recording_id (null or absent: None), or some other JSON value.
SummaryEntries ==
  { [is_dict |-> TRUE, status |-> st, recording_id |-> r] :
      st \in {"success", "failure"},
      r \in {None} \cup { Some(x) : x \in ResumeRecordingIds } }
  \cup { [is_dict |-> FALSE, status |-> "success", recording_id |-> None] }

\* the jobs objects: JSON objects, so one entry per chunk_id
Summaries == UNION { [cs -> SummaryEntries] : cs \in SUBSET ResumeChunkIds }

\* the job lists load_jobs can return: any rows, repeated rows included
JobLists(maxLen) ==
  UNION { [1..n -> { InferenceJob(r, c) : r \in ResumeRecordingIds, c \in ResumeChunkIds }] :
            n \in 0..maxLen }

\* _load_resume_chunks: (recording_id, chunk_id) of the entries that are
\* objects with status "success"
LoadResumeChunksMut(jobsobj) ==
  { << jobsobj[c].recording_id, c >> :
      c \in { x \in DOMAIN jobsobj : jobsobj[x].is_dict } }
LoadResumeChunks(jobsobj) ==
  { << jobsobj[c].recording_id, c >> :
      c \in { x \in DOMAIN jobsobj :
                jobsobj[x].is_dict /\ jobsobj[x].status = "success" } }

\* _should_skip_job
ShouldSkipJobMut(job, entries) ==
  IF entries = {} THEN FALSE
  ELSE << Some(job.recording_id), job.chunk_id >> \in entries
ShouldSkipJob(job, entries) ==
  IF entries = {} THEN FALSE
  ELSE IF << Some(job.recording_id), job.chunk_id >> \in entries THEN TRUE
  ELSE IF << None, job.chunk_id >> \in entries THEN TRUE
  ELSE FALSE

\* [job for job in jobs if not _should_skip_job(job, resume_entries)]
RECURSIVE FilterJobsMut(_, _)
FilterJobsMut(jobs, entries) ==
  IF jobs = <<>> THEN <<>>
  ELSE IF ShouldSkipJob(Head(jobs), entries) THEN Tail(jobs)
  ELSE << Head(jobs) >> \o FilterJobsMut(Tail(jobs), entries)
RECURSIVE FilterJobs(_, _)
FilterJobs(jobs, entries) ==
  IF jobs = <<>> THEN <<>>
  ELSE IF ShouldSkipJob(Head(jobs), entries) THEN FilterJobs(Tail(jobs), entries)
  ELSE << Head(jobs) >> \o FilterJobs(Tail(jobs), entries)

\* `if skipped: print(...)`
SkippedMessage(skipped) == IF skipped # 0 THEN Some(skipped) ELSE None

\* orphaned = len(resume_entries) - skipped; `if orphaned > 0: print(...)`
OrphanedMessage(entries, skipped) ==
  IF Cardinality(entries) - skipped > 0
  THEN Some(Cardinality(entries) - skipped)
  ELSE None

InitResume ==
  /\ SchedulerIdle
  /\ LocksIdle
  /\ RunsIdle
  /\ LogIdle
  /\ PoolIdle
  /\ ProbeIdle
  /\ resume_summary \in Summaries
  /\ resume_manifest \in JobLists(MaxResumeJobs)
  /\ resume_jobs = <<>>
  /\ resume_entries = {}
  /\ resume_pc = "load"
  /\ skipped_msg = None
  /\ orphaned_msg = None
  /\ resume_runs = 1
  /\ resume_first = None

\* jobs = load_jobs(manifest); resume_entries = _load_resume_chunks(...)
ResumeLoad ==
  /\ resume_pc = "load"
  /\ resume_jobs' = resume_manifest
  /\ resume_entries' = LoadResumeChunks(resume_summary)
  /\ resume_pc' = "filter"
  /\ UNCHANGED << schedvars, lockvars, runsvars, logvars, poolvars, probevars, resume_summary, resume_manifest,
                  skipped_msg, orphaned_msg, resume_runs, resume_first >>

\* `if resume_entries:` filter the jobs and print the two counts
ResumeFilter ==
  /\ resume_pc = "filter"
  /\ IF resume_entries # {}
     THEN LET kept == FilterJobs(resume_jobs, resume_entries)
              skipped == Len(resume_jobs) - Len(kept)
          IN /\ resume_jobs' = kept
             /\ skipped_msg' = SkippedMessage(skipped)
             /\ orphaned_msg' = OrphanedMessage(resume_entries, skipped)
     ELSE UNCHANGED << resume_jobs, skipped_msg, orphaned_msg >>
  /\ resume_first' = IF resume_runs = 1 THEN Some(resume_jobs') ELSE resume_first
  /\ resume_pc' = "filtered"
  /\ UNCHANGED << schedvars, lockvars, runsvars, logvars, poolvars, probevars, resume_summary, resume_manifest,
                  resume_entries, resume_runs >>

\* infer_run is started again with the same summary, on the jobs the first
\* run was left with
ResumeAgain ==
  /\ resume_pc = "filtered"
  /\ resume_runs = 1
  /\ resume_manifest' = resume_jobs
  /\ resume_jobs' = <<>>
  /\ resume_entries' = {}
  /\ skipped_msg' = None
  /\ orphaned_msg' = None
  /\ resume_runs' = 2
  /\ resume_pc' = "load"
  /\ UNCHANGED << schedvars, lockvars, runsvars, logvars, poolvars, probevars, resume_summary, resume_first >>

NextResume ==
  \/ ResumeLoad
  \/ ResumeFilter
  \/ ResumeAgain

SpecResume == InitResume /\ [][NextResume]_vars


\* ------------------------------------------- worker planning (infer_run)
\* plan_workers as it stands in infer_scheduler reads the value of
\* detect_gpus as the list of GPUs and returns the list of workers; gpu.py
\* wraps that list in a GPUDetectionResult with a diagnostic, and infer_run
\* takes a diagnostic next to the workers.  The diagnostic is only printed;
\* the workers are modelled.

MaxGpus == 3
MaxCpuWorkers == 2

\* what nvidia-smi lists: devices 0, 1, ... in index order
GPUInfo(index) == [index |-> index, name |-> "gpu"]
Inventories(maxGpus) == { [i \in 1..n |-> GPUInfo(i - 1)] : n \in 0..maxGpus }

\* --max-gpus and --cpu-workers are integer options with no lower limit
GpuCaps(maxGpus) == {None} \cup { Some(c) : c \in (0 - 2)..(maxGpus + 1) }
CpuWorkerCounts(maxCpu) == (0 - 1)..maxCpu

GPUWorker(info) == [index |-> info.index, name |-> info.name]

\* seq[:n]
SliceTo(seq, n) ==
  IF n < 0 THEN SubSeq(seq, 1, Max(Len(seq) + n, 0))
  ELSE SubSeq(seq, 1, Min(n, Len(seq)))

\* plan_workers(max_gpus)
PlanWorkersResult(infos, cap) ==
  IF infos = <<>> THEN <<>>
  ELSE LET workers == [i \in 1..Len(infos) |-> GPUWorker(infos[i])] IN
         IF cap # None THEN SliceTo(workers, cap[1]) ELSE workers

\* (gpu_worker, f"gpu-{gpu_worker.index}") and (None, f"cpu-{idx}")
GpuSlot(worker) == [gpu |-> Some(worker), label |-> << "gpu", worker.index >>]
CpuSlot(idx) == [gpu |-> None, label |-> << "cpu", idx >>]

\* cpu_slot_count
CpuSlotCountMut(slots, cpu) == Max(cpu, 1)
CpuSlotCount(slots, cpu) == IF slots = <<>> THEN Max(cpu, 1) ELSE Max(0, cpu)

\* `if not worker_slots: worker_slots = [(None, "cpu-0")]`, in infer_run and
\* again in _run_scheduler
DefaultPool(slots) == IF slots = <<>> THEN << CpuSlot(0) >> ELSE slots

InitPool ==
  /\ SchedulerIdle
  /\ LocksIdle
  /\ RunsIdle
  /\ LogIdle
  /\ ResumeIdle
  /\ ProbeIdle
  /\ gpu_inventory \in Inventories(MaxGpus)
  /\ max_gpus \in GpuCaps(MaxGpus)
  /\ cpu_workers \in CpuWorkerCounts(MaxCpuWorkers)
  /\ gpu_workers = <<>>
  /\ worker_slots = <<>>
  /\ worker_pool = <<>>
  /\ pool_pc = "plan"

\* workers = plan_workers(max_gpus=max_gpus)
PlanWorkers ==
  /\ pool_pc = "plan"
  /\ gpu_workers' = PlanWorkersResult(gpu_inventory, max_gpus)
  /\ pool_pc' = "slots"
  /\ UNCHANGED << schedvars, lockvars, runsvars, logvars, resumevars, probevars, gpu_inventory, max_gpus,
                  cpu_workers, worker_slots, worker_pool >>

\* one slot per GPU worker, then the CPU slots, then the default
BuildWorkerSlots ==
  /\ pool_pc = "slots"
  /\ LET gpu_slots == [i \in 1..Len(gpu_workers) |-> GpuSlot(gpu_workers[i])]
         count == CpuSlotCount(gpu_slots, cpu_workers)
     IN worker_slots' = DefaultPool(gpu_slots \o [idx \in 1..count |-> CpuSlot(idx - 1)])
  /\ pool_pc' = "schedule"
  /\ UNCHANGED << schedvars, lockvars, runsvars, logvars, resumevars, probevars, gpu_inventory, max_gpus,
                  cpu_workers, gpu_workers, worker_pool >>

\* _run_scheduler(worker_pool=worker_slots, ...)
StartScheduler ==
  /\ pool_pc = "schedule"
  /\ worker_pool' = DefaultPool(worker_slots)
  /\ pool_pc' = "running"
  /\ UNCHANGED << schedvars, lockvars, runsvars, logvars, resumevars, probevars, gpu_inventory, max_gpus,
                  cpu_workers, gpu_workers, worker_slots >>

NextPool ==
  \/ PlanWorkers
  \/ BuildWorkerSlots
  \/ StartScheduler

SpecPool == InitPool /\ [][NextPool]_vars


\* ------------------------------------------------ probe_chunk_duration
\* Durations are counted in ticks of 1/1024 s, so that the halvings of the
\* search are exact, as they are on the floats of the inputs below; the
\* returned duration, rounded to two decimals, is counted in hundredths of a
\* second.  Sample rates are multiples of 1024 Hz, which keeps the bytes of
\* one tick a whole number.

TicksPerSecond == 1024
QuarterSecond == 256

\* initial_duration_s, tolerance_s (zero and below are refused),
\* max_duration_s
ProbeInitials ==
  {0 - QuarterSecond, 0, QuarterSecond, 4 * QuarterSecond, 16 * QuarterSecond}
ProbeTolerances ==
  {0 - QuarterSecond, 0, QuarterSecond, 4 * QuarterSecond, 8 * QuarterSecond}
ProbeMaxima == {None, Some(3 * QuarterSecond), Some(12 * QuarterSecond)}

\* the WAV files probed: length n_frames / sample_rate, and format
AudioDurations == {0, 2 * QuarterSecond, 8 * QuarterSecond, 16 * QuarterSecond}
WavFormats ==
  { [sample_rate |-> 16384, channels |-> 1, sample_width_bytes |-> 2],
    [sample_rate |-> 32768, channels |-> 2, sample_width_bytes |-> 2],
    [sample_rate |-> 32768, channels |-> 2, sample_width_bytes |-> 4] }

\* memory_total_mb of the GPU selected (0 when nvidia-smi's figure could not
\* be parsed), None when no GPU was detected
ProbeGpus == {None, Some(0), Some(2)}

\* x / 2
Half(x) == x \div 2

\* The durations are Python floats: a sum or a difference is rounded to the
\* nearest float, a tie going to the even one, while a division by two is
\* exact.  The floats of the model carry MantissaBits binary digits where
\* binary64 carries 53, so every whole number of ticks below 2**MantissaBits
\* is a float and the spacing doubles with each power of two above it.
MantissaBits == 13

\* the distance between neighbouring floats at the magnitude of x
RECURSIVE Spacing(_)
Spacing(x) == IF x < Pow(2, MantissaBits) THEN 1 ELSE 2 * Spacing(x \div 2)

\* the float nearest to x
RoundToFloat(x) ==
  LET m == IF x < 0 THEN 0 - x ELSE x
      s == Spacing(m)
      q == m \div s
      r == m % s
      n == IF 2 * r < s THEN q * s
           ELSE IF 2 * r > s THEN (q + 1) * s
           ELSE IF q % 2 = 0 THEN q * s ELSE (q + 1) * s
  IN IF x < 0 THEN 0 - n ELSE n

\* round(x, 2) of a duration in ticks, in hundredths of a second: to the
\* nearest hundredth, a tie going to the even one
Round2(x) ==
  LET q == (x * 100) \div TicksPerSecond
      r == (x * 100) % TicksPerSecond
  IN IF 2 * r < TicksPerSecond THEN q
     ELSE IF 2 * r > TicksPerSecond THEN q + 1
     ELSE IF q % 2 = 0 THEN q ELSE q + 1

\* _estimate_vram_mb, in units of 1/(100 * 1024**2) MiB: bytes per second
\* times 4, times the duration, times 1.35.  The division by the ticks of a
\* second is made in two parts to keep the products small; it leaves no
\* remainder for the formats above, nor for 44100 Hz mono 16 bit at the
\* multiples of 32 ticks.
EstimateVramMbMut(duration, sample_rate, channels, sample_width_bytes) ==
  LET bytes_per_second == sample_rate * channels * sample_width_bytes
      float_bytes_per_second == bytes_per_second * 4
      whole == float_bytes_per_second \div TicksPerSecond
      rest == float_bytes_per_second % TicksPerSecond
      part == duration % TicksPerSecond
  IN whole * part * 135 + (rest * part * 135) \div TicksPerSecond
EstimateVramMb(duration, sample_rate, channels, sample_width_bytes) ==
  LET bytes_per_second == sample_rate * channels * sample_width_bytes
      float_bytes_per_second == bytes_per_second * 4
      whole == float_bytes_per_second \div TicksPerSecond
      rest == float_bytes_per_second % TicksPerSecond
  IN whole * duration * 135 + (rest * duration * 135) \div TicksPerSecond

\* _memory_limit_mb, in tenths of a MiB: max(1.0, memory_total_mb * 0.8) for
\* a GPU, 4096.0 without one
MemoryLimitMb(gpu) == IF gpu # None THEN Max(10, gpu[1] * 8) ELSE 40960

\* estimate_mb <= memory_limit_mb (10485760 estimate units are a tenth of a
\* MiB)
WithinLimit(estimate, limit) ==
  \/ estimate \div 10485760 < limit
  \/ estimate \div 10485760 = limit /\ estimate % 10485760 = 0

\* evaluate(duration)
Evaluate(duration) ==
  LET d == Min(duration, max_duration)
      estimate_mb == EstimateVramMb(d, wav_meta.sample_rate, wav_meta.channels,
                                    wav_meta.sample_width_bytes)
      ok == WithinLimit(estimate_mb, MemoryLimitMb(probe_gpu))
  IN [fits |-> ok, estimate_mb |-> estimate_mb,
      reason |-> IF ok THEN "fits memory budget" ELSE "exceeds limit"]

\* ChunkProbeAttempt, and the entry record() appends to the log for it
ChunkProbeAttempt(duration, ev) ==
  [duration_s |-> duration, estimated_vram_mb |-> ev.estimate_mb,
   fits |-> ev.fits, reason |-> ev.reason]
ProbeLogEntry(duration, ev) ==
  [duration_s |-> duration, estimated_vram_mb |-> ev.estimate_mb,
   fits |-> ev.fits, reason |-> ev.reason,
   memory_limit_mb |-> MemoryLimitMb(probe_gpu)]

\* record(duration, fits, reason, estimate_mb)
RecordMut(duration, ev) ==
  /\ probe_attempts' = Append(probe_attempts, ChunkProbeAttempt(duration, ev))
  /\ probe_log' = IF ev.fits THEN Append(probe_log, ProbeLogEntry(duration, ev))
                  ELSE probe_log
Record(duration, ev) ==
  /\ probe_attempts' = Append(probe_attempts, ChunkProbeAttempt(duration, ev))
  /\ probe_log' = Append(probe_log, ProbeLogEntry(duration, ev))

InitProbe ==
  /\ SchedulerIdle
  /\ LocksIdle
  /\ RunsIdle
  /\ LogIdle
  /\ ResumeIdle
  /\ PoolIdle
  /\ probe_args \in [initial_duration_s : ProbeInitials,
                      max_duration_s : ProbeMaxima,
                      tolerance_s : ProbeTolerances]
  /\ \E d \in AudioDurations, f \in WavFormats :
       wav_meta = [duration_s |-> d, sample_rate |-> f.sample_rate,
                   channels |-> f.channels,
                   sample_width_bytes |-> f.sample_width_bytes]
  /\ probe_gpu \in ProbeGpus
  /\ probe_pc = "call"
  /\ max_duration = 0
  /\ low_success = 0
  /\ high_failure = 0
  /\ candidate = 0
  /\ fits = FALSE
  /\ probe_attempts = <<>>
  /\ probe_log = <<>>
  /\ probe_result = None
  /\ probe_error = None

\* `if initial_duration_s <= 0` and `if tolerance_s <= 0`
InvalidArgumentsMut(args) ==
  args.initial_duration_s < 0 \/ args.tolerance_s < 0
InvalidArguments(args) ==
  args.initial_duration_s <= 0 \/ args.tolerance_s <= 0

\* the argument checks, and the check of the file's duration
ProbeRejects ==
  /\ probe_pc = "call"
  /\ \/ InvalidArguments(probe_args)
     \/ wav_meta.duration_s <= 0
  /\ probe_error' =
       IF InvalidArguments(probe_args)
       THEN Some("ValueError") ELSE Some("RuntimeError")
  /\ probe_pc' = "raised"
  /\ UNCHANGED << schedvars, lockvars, runsvars, logvars, resumevars, poolvars, probe_args,
                  wav_meta, probe_gpu, max_duration, low_success, high_failure,
                  candidate, fits, probe_attempts, probe_log, probe_result >>

\* max_duration, low_success, high_failure and the first candidate
ProbeSetup ==
  /\ probe_pc = "call"
  /\ ~InvalidArguments(probe_args)
  /\ wav_meta.duration_s > 0
  /\ LET upper == IF probe_args.max_duration_s = None THEN wav_meta.duration_s
                  ELSE Min(probe_args.max_duration_s[1], wav_meta.duration_s)
         bound == Max(probe_args.tolerance_s, upper)
     IN /\ max_duration' = bound
        /\ high_failure' = bound
        /\ candidate' = Min(probe_args.initial_duration_s, bound)
  /\ low_success' = 0
  /\ probe_pc' = "first"
  /\ UNCHANGED << schedvars, lockvars, runsvars, logvars, resumevars, poolvars, probe_args,
                  wav_meta, probe_gpu, fits, probe_attempts, probe_log,
                  probe_result, probe_error >>

\* the first candidate is evaluated and recorded
ProbeFirst ==
  /\ probe_pc = "first"
  /\ LET ev == Evaluate(candidate) IN
       /\ Record(candidate, ev)
       /\ fits' = ev.fits
       /\ IF ev.fits
          THEN /\ low_success' = candidate
               /\ probe_pc' = "bisect"
               /\ UNCHANGED high_failure
          ELSE /\ high_failure' = candidate
               /\ probe_pc' = "halve"
               /\ UNCHANGED low_success
  /\ UNCHANGED << schedvars, lockvars, runsvars, logvars, resumevars, poolvars, probe_args,
                  wav_meta, probe_gpu, max_duration, candidate, probe_result,
                  probe_error >>

\* `while candidate > tolerance_s`: the candidate is halved (not below the
\* tolerance), evaluated and recorded; the loop is left when it fits
ProbeHalve ==
  /\ probe_pc = "halve"
  /\ candidate > probe_args.tolerance_s
  /\ LET c == Max(probe_args.tolerance_s, Half(candidate))
         ev == Evaluate(c)
     IN /\ candidate' = c
        /\ Record(c, ev)
        /\ fits' = ev.fits
        /\ IF ev.fits
           THEN /\ low_success' = c
                /\ probe_pc' = "bisect"
                /\ UNCHANGED high_failure
           ELSE /\ high_failure' = c
                /\ UNCHANGED << low_success, probe_pc >>
  /\ UNCHANGED << schedvars, lockvars, runsvars, logvars, resumevars, poolvars, probe_args,
                  wav_meta, probe_gpu, max_duration, probe_result, probe_error >>

\* the halving loop ends at the tolerance with nothing that fitted:
\* `if low_success == 0.0 and not fits: low_success = tolerance_s`
ProbeHalveExit ==
  /\ probe_pc = "halve"
  /\ ~(candidate > probe_args.tolerance_s)
  /\ low_success' = IF low_success = 0 /\ ~fits THEN probe_args.tolerance_s
                    ELSE low_success
  /\ probe_pc' = "bisect"
  /\ UNCHANGED << schedvars, lockvars, runsvars, logvars, resumevars, poolvars, probe_args,
                  wav_meta, probe_gpu, max_duration, high_failure, candidate,
                  fits, probe_attempts, probe_log, probe_result, probe_error >>

\* `while high_failure - low_success > tolerance_s`: the midpoint is
\* evaluated and recorded, and replaces one end
ProbeBisect ==
  /\ probe_pc = "bisect"
  /\ RoundToFloat(high_failure - low_success) > probe_args.tolerance_s
  /\ Len(probe_attempts) < MaxProbeAttempts
  /\ LET c == Half(RoundToFloat(high_failure + low_success))
         ev == Evaluate(c)
     IN /\ candidate' = c
        /\ Record(c, ev)
        /\ fits' = ev.fits
        /\ IF ev.fits
           THEN low_success' = c /\ UNCHANGED high_failure
           ELSE high_failure' = c /\ UNCHANGED low_success
  /\ UNCHANGED << schedvars, lockvars, runsvars, logvars, resumevars, poolvars, probe_args,
                  wav_meta, probe_gpu, probe_pc, max_duration, probe_result,
                  probe_error >>

\* return ChunkProbeResult(max_duration_s=round(low_success, 2), ...)
ProbeReturns ==
  /\ probe_pc = "bisect"
  /\ ~(RoundToFloat(high_failure - low_success) > probe_args.tolerance_s)
  /\ probe_result' = Some([max_duration_s |-> Round2(low_success),
                           attempts |-> probe_attempts])
  /\ probe_pc' = "returned"
  /\ UNCHANGED << schedvars, lockvars, runsvars, logvars, resumevars, poolvars, probe_args,
                  wav_meta, probe_gpu, max_duration, low_success, high_failure,
                  candidate, fits, probe_attempts, probe_log, probe_error >>

NextProbe ==
  \/ ProbeRejects
  \/ ProbeSetup
  \/ ProbeFirst
  \/ ProbeHalve
  \/ ProbeHalveExit
  \/ ProbeBisect
  \/ ProbeReturns

SpecProbe == InitProbe /\ [][NextProbe]_vars

\* Probes of long recordings with tolerances down to one tick, where the
\* durations searched lie above 2**MantissaBits ticks and neighbouring
\* floats are further apart than the tolerance.  The call runs on its own
\* thread, which takes a step whenever it can.
PrecisionTolerances == {0, 1, 2, 8 * TicksPerSecond}
PrecisionInitials == {8 * TicksPerSecond, 16 * TicksPerSecond}
PrecisionDurations == {12 * TicksPerSecond, 16 * TicksPerSecond}

InitProbePrecision ==
  /\ SchedulerIdle
  /\ LocksIdle
  /\ RunsIdle
  /\ LogIdle
  /\ ResumeIdle
  /\ PoolIdle
  /\ probe_args \in [initial_duration_s : PrecisionInitials,
                      max_duration_s : {None},
                      tolerance_s : PrecisionTolerances]
  /\ \E d \in PrecisionDurations :
       wav_meta = [duration_s |-> d, sample_rate |-> 16384, channels |-> 1,
                   sample_width_bytes |-> 2]
  /\ probe_gpu \in ProbeGpus
  /\ probe_pc = "call"
  /\ max_duration = 0
  /\ low_success = 0
  /\ high_failure = 0
  /\ candidate = 0
  /\ fits = FALSE
  /\ probe_attempts = <<>>
  /\ probe_log = <<>>
  /\ probe_result = None
  /\ probe_error = None

SpecProbePrecision ==
  InitProbePrecision /\ [][NextProbe]_vars /\ WF_vars(NextProbe)

\* ------------------------------- worker_loop's updates of the shared state
\* Each worker thread has taken one job from the queue; its run_job call ends
\* as upd_outcome says and the thread records the outcome statement by
\* statement.  `with lock:` blocks until the lock is free; `x += n` reads x
\* and then writes x + n; list.append, dict item assignment and
\* threading.Event.set are single calls into the interpreter, which runs each
\* of them to its end before another thread runs.

MaxLockThreads == 2

LockThreads == DOMAIN upd_pc

\* how a run_job call ends: it returns a JobResult (with retries 0 or 1), or
\* raises a JobExecutionError (after 1 or 2 attempts) or another exception
RunJobOutcomes ==
  [kind : {"success", "JobExecutionError"}, amount : {0, 1}]
    \cup [kind : {"Exception"}, amount : {0}]

\* the labels of a pool of n workers: all different (what infer_run builds),
\* or one label shared by every worker (a pool handed in by another caller)
PoolLabels(n) == { [t \in 1..n |-> t], [t \in 1..n |-> 1] }

\* the chunk ids of the n jobs: all different, or shared across recordings
JobChunks(n) == { [t \in 1..n |-> t], [t \in 1..n |-> 1] }

\* the counters one outcome updates, in order, with what is added
CounterUpdates(o) ==
  IF o.kind = "success"
  THEN << [name |-> "success", amount |-> 1],
          [name |-> "retries", amount |-> o.amount] >>
  ELSE IF o.kind = "JobExecutionError"
  THEN << [name |-> "failure", amount |-> 1],
          [name |-> "failed_retries", amount |-> o.amount] >>
  ELSE << [name |-> "failure", amount |-> 1] >>

InitLocks ==
  /\ SchedulerIdle
  /\ RunsIdle
  /\ LogIdle
  /\ ResumeIdle
  /\ PoolIdle
  /\ ProbeIdle
  /\ \E n \in 1..MaxLockThreads :
       /\ upd_label \in PoolLabels(n)
       /\ \E chunks \in JobChunks(n), outs \in [1..n -> RunJobOutcomes] :
            upd_outcome = [t \in 1..n |-> [kind |-> outs[t].kind,
                                          amount |-> outs[t].amount,
                                          chunk_id |-> chunks[t]]]
       /\ upd_pc = [t \in 1..n |-> "check"]
       /\ upd_fields = [t \in 1..n |-> <<>>]
       /\ upd_read = [t \in 1..n |-> 0]
       /\ shared_stats = [l \in { upd_label[t] : t \in 1..n } |-> ZeroStats]
  /\ stats_lock = None
  /\ job_lock = None
  /\ shared_results = <<>>
  /\ shared_errors = <<>>
  /\ shared_stop = FALSE

\* `if stop_event.is_set(): continue`: the job is skipped
UpdSkip(t) ==
  /\ upd_pc[t] = "check"
  /\ IsSet(shared_stop)
  /\ upd_pc' = [upd_pc EXCEPT ![t] = "skipped"]
  /\ UNCHANGED << schedvars, logvars, resumevars, poolvars, probevars, runsvars,
                  upd_label, upd_outcome, upd_fields, upd_read, stats_lock,
                  job_lock, shared_stats, shared_results, shared_errors,
                  shared_stop >>

\* the flag was clear: run_job is called and ends
UpdRunJob(t) ==
  /\ upd_pc[t] = "check"
  /\ ~IsSet(shared_stop)
  /\ upd_pc' = [upd_pc EXCEPT ![t] = IF upd_outcome[t].kind = "success"
                                     THEN "acquire_stats" ELSE "append"]
  /\ upd_fields' = [upd_fields EXCEPT ![t] = CounterUpdates(upd_outcome[t])]
  /\ UNCHANGED << schedvars, logvars, resumevars, poolvars, probevars, runsvars,
                  upd_label, upd_outcome, upd_read, stats_lock, job_lock,
                  shared_stats, shared_results, shared_errors, shared_stop >>

\* errors.append(exc)
UpdAppendError(t) ==
  /\ upd_pc[t] = "append"
  /\ shared_errors' = Append(shared_errors, t)
  /\ upd_pc' = [upd_pc EXCEPT ![t] = "set_stop"]
  /\ UNCHANGED << schedvars, logvars, resumevars, poolvars, probevars, runsvars,
                  upd_label, upd_outcome, upd_fields, upd_read, stats_lock,
                  job_lock, shared_stats, shared_results, shared_stop >>

\* stop_event.set()
UpdSetStop(t) ==
  /\ upd_pc[t] = "set_stop"
  /\ shared_stop' = TRUE
  /\ upd_pc' = [upd_pc EXCEPT ![t] = "acquire_stats"]
  /\ UNCHANGED << schedvars, logvars, resumevars, poolvars, probevars, runsvars,
                  upd_label, upd_outcome, upd_fields, upd_read, stats_lock,
                  job_lock, shared_stats, shared_results, shared_errors >>

\* `with lock:` is entered when the lock is free
CanAcquireMut(lock) == TRUE
CanAcquire(lock) == lock = None

\* `with stats_lock:`
AcquireStatsLock(t) ==
  /\ upd_pc[t] = "acquire_stats"
  /\ CanAcquire(stats_lock)
  /\ stats_lock' = Some(t)
  /\ upd_pc' = [upd_pc EXCEPT ![t] = "read"]
  /\ UNCHANGED << schedvars, logvars, resumevars, poolvars, probevars, runsvars,
                  upd_label, upd_outcome, upd_fields, upd_read, job_lock,
                  shared_stats, shared_results, shared_errors, shared_stop >>

\* stats[label][name] += amount: the read
ReadCounter(t) ==
  /\ upd_pc[t] = "read"
  /\ upd_read' =
       [upd_read EXCEPT ![t] = shared_stats[upd_label[t]][Head(upd_fields[t]).name]]
  /\ upd_pc' = [upd_pc EXCEPT ![t] = "write"]
  /\ UNCHANGED << schedvars, logvars, resumevars, poolvars, probevars, runsvars,
                  upd_label, upd_outcome, upd_fields, stats_lock, job_lock,
                  shared_stats, shared_results, shared_errors, shared_stop >>

\* stats[label][name] += amount: the write; then the next counter, or the
\* end of the `with` block
WriteCounter(t) ==
  /\ upd_pc[t] = "write"
  /\ LET f == Head(upd_fields[t]) IN
       shared_stats' = [shared_stats EXCEPT ![upd_label[t]][f.name] =
                                              upd_read[t] + f.amount]
  /\ upd_fields' = [upd_fields EXCEPT ![t] = Tail(@)]
  /\ upd_pc' = [upd_pc EXCEPT ![t] = IF Tail(upd_fields[t]) = <<>>
                                     THEN "release_stats" ELSE "read"]
  /\ UNCHANGED << schedvars, logvars, resumevars, poolvars, probevars, runsvars,
                  upd_label, upd_outcome, upd_read, stats_lock, job_lock,
                  shared_results, shared_errors, shared_stop >>

\* the end of `with stats_lock:`
ReleaseStatsLock(t) ==
  /\ upd_pc[t] = "release_stats"
  /\ stats_lock' = None
  /\ upd_pc' = [upd_pc EXCEPT ![t] = "acquire_job"]
  /\ UNCHANGED << schedvars, logvars, resumevars, poolvars, probevars, runsvars,
                  upd_label, upd_outcome, upd_fields, upd_read, job_lock,
                  shared_stats, shared_results, shared_errors, shared_stop >>

\* `with job_lock:`
AcquireJobLock(t) ==
  /\ upd_pc[t] = "acquire_job"
  /\ CanAcquire(job_lock)
  /\ job_lock' = Some(t)
  /\ upd_pc' = [upd_pc EXCEPT ![t] = "store"]
  /\ UNCHANGED << schedvars, logvars, resumevars, poolvars, probevars, runsvars,
                  upd_label, upd_outcome, upd_fields, upd_read, stats_lock,
                  shared_stats, shared_results, shared_errors, shared_stop >>

\* job_results[job.chunk_id] = {...}
StoreJobResult(t) ==
  /\ upd_pc[t] = "store"
  /\ shared_results' =
       Put(shared_results, upd_outcome[t].chunk_id,
           [status |-> IF upd_outcome[t].kind = "success"
                       THEN "success" ELSE "failure",
            worker |-> upd_label[t], thread |-> t])
  /\ upd_pc' = [upd_pc EXCEPT ![t] = "release_job"]
  /\ UNCHANGED << schedvars, logvars, resumevars, poolvars, probevars, runsvars,
                  upd_label, upd_outcome, upd_fields, upd_read, stats_lock,
                  job_lock, shared_stats, shared_errors, shared_stop >>

\* the end of `with job_lock:` (finally: task_done)
ReleaseJobLock(t) ==
  /\ upd_pc[t] = "release_job"
  /\ job_lock' = None
  /\ upd_pc' = [upd_pc EXCEPT ![t] = "recorded"]
  /\ UNCHANGED << schedvars, logvars, resumevars, poolvars, probevars, runsvars,
                  upd_label, upd_outcome, upd_fields, upd_read, stats_lock,
                  shared_stats, shared_results, shared_errors, shared_stop >>

NextLocks ==
  \/ \E t \in LockThreads : UpdSkip(t)
  \/ \E t \in LockThreads : UpdRunJob(t)
  \/ \E t \in LockThreads : UpdAppendError(t)
  \/ \E t \in LockThreads : UpdSetStop(t)
  \/ \E t \in LockThreads : AcquireStatsLock(t)
  \/ \E t \in LockThreads : ReadCounter(t)
  \/ \E t \in LockThreads : WriteCounter(t)
  \/ \E t \in LockThreads : ReleaseStatsLock(t)
  \/ \E t \in LockThreads : AcquireJobLock(t)
  \/ \E t \in LockThreads : StoreJobResult(t)
  \/ \E t \in LockThreads : ReleaseJobLock(t)

SpecLocks == InitLocks /\ [][NextLocks]_vars

\* ------------------- infer orchestrate --resume-completed, run repeatedly
\* Every run of a recording uses the same telemetry log path, so every run
\* reads and writes the same summary path.  A run filters the manifest with
\* the summary it finds, hands the jobs left to the scheduler and, when the
\* scheduler returns, replaces the summary with the outcomes of the jobs it
\* ran.  Between runs the manifest may gain a chunk.

MaxRunsJobs == 2
MaxRuns == 3

\* the entry worker_loop stores for a job, as the summary file holds it
SummaryEntry(job, status) ==
  [is_dict |-> TRUE, status |-> status, recording_id |-> Some(job.recording_id)]

\* scheduler_summary["jobs"] after a run in which the jobs numbered in
\* `executed` ran, in order, those in `failed` failing
RECURSIVE JobSummary(_, _, _, _)
JobSummary(jobs, executed, failed, i) ==
  IF i = 0 THEN <<>>
  ELSE LET before == JobSummary(jobs, executed, failed, i - 1) IN
         IF i \in executed
         THEN Put(before, jobs[i].chunk_id,
                  SummaryEntry(jobs[i], IF i \in failed THEN "failure"
                                        ELSE "success"))
         ELSE before

\* resume_arg = summary_path if summary_path.exists() else None, then
\* _load_resume_chunks
ResumeEntriesOf(summary) ==
  IF summary = None THEN {} ELSE LoadResumeChunks(summary[1])

InitRuns ==
  /\ SchedulerIdle
  /\ LocksIdle
  /\ LogIdle
  /\ ResumeIdle
  /\ PoolIdle
  /\ ProbeIdle
  /\ runs_manifest \in { DistinctChunks(n) : n \in 1..MaxRunsJobs }
  /\ runs_summary = None
  /\ runs_pc = "start"
  /\ runs_jobs = <<>>
  /\ runs_count = 1
  /\ runs_history = <<>>
  /\ runs_succeeded = {}
  /\ runs_repeated = {}

\* infer_run up to `if not jobs: return`
RunsFilter ==
  /\ runs_pc = "start"
  /\ runs_jobs' = FilterJobs(runs_manifest, ResumeEntriesOf(runs_summary))
  /\ IF runs_jobs' = <<>>
     THEN /\ runs_pc' = "done"
          /\ runs_history' = Append(runs_history, "nothing to do")
     ELSE /\ runs_pc' = "schedule"
          /\ UNCHANGED runs_history
  /\ UNCHANGED << schedvars, lockvars, logvars, resumevars, poolvars,
                  probevars, runs_manifest, runs_summary, runs_count,
                  runs_succeeded, runs_repeated >>

\* the jobs run through `executed`, those in `failed` failing
Executes(executed, failed) ==
  LET ran == { runs_jobs[i] : i \in executed }
      ok == { runs_jobs[i] : i \in executed \ failed }
  IN /\ runs_repeated' = runs_repeated \cup (ran \cap runs_succeeded)
     /\ runs_succeeded' = runs_succeeded \cup ok

\* _run_scheduler returns: every job ran and succeeded;
\* _write_scheduler_summary replaces the summary
RunsComplete ==
  /\ runs_pc = "schedule"
  /\ Executes(DOMAIN runs_jobs, {})
  /\ runs_summary' = Some(JobSummary(runs_jobs, DOMAIN runs_jobs, {},
                                     Len(runs_jobs)))
  /\ runs_history' = Append(runs_history, "completed")
  /\ runs_pc' = "done"
  /\ UNCHANGED << schedvars, lockvars, logvars, resumevars, poolvars,
                  probevars, runs_manifest, runs_jobs, runs_count >>

\* _run_scheduler raises: some jobs ran, at least one of them failed, the
\* others were skipped; infer_run is left before _write_scheduler_summary
RunsFail ==
  /\ runs_pc = "schedule"
  /\ \E executed \in SUBSET (DOMAIN runs_jobs) :
       \E failed \in (SUBSET executed) \ {{}} :
         Executes(executed, failed)
  /\ runs_history' = Append(runs_history, "failed")
  /\ runs_pc' = "done"
  /\ UNCHANGED << schedvars, lockvars, logvars, resumevars, poolvars,
                  probevars, runs_manifest, runs_summary, runs_jobs,
                  runs_count >>

\* between two runs the manifest gains a chunk
ManifestGrows ==
  /\ runs_pc = "done"
  /\ Len(runs_manifest) <= MaxRunsJobs
  /\ runs_manifest' = DistinctChunks(Len(runs_manifest) + 1)
  /\ runs_history' = Append(runs_history, "grew")
  /\ UNCHANGED << schedvars, lockvars, logvars, resumevars, poolvars,
                  probevars, runs_summary, runs_pc, runs_jobs, runs_count,
                  runs_succeeded, runs_repeated >>

\* infer orchestrate --resume-completed is started again
RunsAgain ==
  /\ runs_pc = "done"
  /\ runs_count < MaxRuns
  /\ runs_count' = runs_count + 1
  /\ runs_jobs' = <<>>
  /\ runs_pc' = "start"
  /\ UNCHANGED << schedvars, lockvars, logvars, resumevars, poolvars,
                  probevars, runs_manifest, runs_summary, runs_history,
                  runs_succeeded, runs_repeated >>

NextRuns ==
  \/ RunsFilter
  \/ RunsComplete
  \/ RunsFail
  \/ ManifestGrows
  \/ RunsAgain

SpecRuns == InitRuns /\ [][NextRuns]_vars


\* ---------------------------------------------------------------- claims

Finished == main_pc \in {"raised", "returned", "done"}
ChunkOf(j) == manifest[j].chunk_id
Statuses == {"success", "failure"}
InRunJob(w) == pc[w] \in {"attempt", "exec"}

\* C1: the job-outcome map _run_scheduler returns has exactly N entries, one
\* per submitted job, each with status success or failure.
C1_ReturnedMapHasOneEntryPerJob ==
  main_pc \in {"returned", "done"} =>
    LET jobs == scheduler_summary[1].jobs IN
      /\ Cardinality(DOMAIN jobs) = Len(manifest)
      /\ \A j \in Jobs : ChunkOf(j) \in DOMAIN jobs
      /\ \A c \in DOMAIN jobs : jobs[c].status \in Statuses

\* C2: whether the run ends normally or is stopped by a fatal job error, every
\* submitted job appears exactly once in the final RunSummary.jobs map, with
\* status success or failure; no job is omitted.
C2_EveryJobInFinalSummary ==
  main_pc \in {"raised", "done"} =>
    /\ summary_file # None
    /\ LET jobs == summary_file[1].jobs IN
         /\ Cardinality(DOMAIN jobs) = Len(manifest)
         /\ \A j \in Jobs : /\ ChunkOf(j) \in DOMAIN jobs
                            /\ jobs[ChunkOf(j)].status \in Statuses

\* C3: each queued job is handed to run_job at most once, and no two workers
\* are ever inside run_job for the same job.
C3_JobRunAtMostOnce ==
  /\ \A j \in Jobs : started[j] <= 1
  /\ \A w1, w2 \in Workers :
       (w1 # w2 /\ InRunJob(w1) /\ InRunJob(w2)) => item[w1] # item[w2]

\* two workers are inside run_job at the same time
C3_Witness ==
  \E w1, w2 \in Workers : w1 # w2 /\ pc[w1] = "exec" /\ pc[w2] = "exec"

\* C4 as stated: once a worker has caught a fatal error, no call to run_job
\* starts any more.
C4_NoStartAfterCaughtError == late_start = {}

\* C4 as amended: a job dequeued once the stop flag is set is never handed to
\* run_job (a call that starts after an error was caught is for a job
\* dequeued before the flag was set), and every call that did start has run
\* to its end when the scheduler finishes.
C4_NoStartForJobDequeuedAfterStop ==
  /\ \A j \in Jobs : deq_after_stop[j] => started[j] = 0
  /\ \A j \in late_start : ~deq_after_stop[j] /\ started[j] = 1
  /\ Finished => \A j \in Jobs : started[j] > 0 => outcome[j].kind # "pending"

\* a run that was stopped, with a job skipped after the flag was set
C4_Witness ==
  /\ main_pc = "raised"
  /\ \E j \in Jobs : deq_after_stop[j] /\ started[j] = 0

\* C5: a run in which a job fails terminally still ends with a run summary on
\* disk whose jobs map marks as success exactly the chunks that succeeded and
\* records the failed chunk as failure.
C5_SummaryAfterFailedRun ==
  main_pc = "raised" =>
    /\ summary_file # None
    /\ LET jobs == summary_file[1].jobs IN
         \A j \in Jobs :
           /\ (outcome[j].kind = "returned") <=>
                (ChunkOf(j) \in DOMAIN jobs /\ jobs[ChunkOf(j)].status = "success")
           /\ (outcome[j].kind = "raised") =>
                (ChunkOf(j) \in DOMAIN jobs /\ jobs[ChunkOf(j)].status = "failure")

Count(t, status) == Cardinality({ i \in DOMAIN t : t[i].status = status })

\* the job's run_job call raised JobExecutionError
Exhausted(j) ==
  outcome[j].kind = "raised" /\ outcome[j].error.kind = "JobExecutionError"

C8_SuccessOnAttemptK ==
  \A j \in Jobs :
    (outcome[j].kind = "returned" /\ outcome[j].value # None) =>
      LET k == outcome[j].value[1].attempts
          t == telemetry[j]
      IN /\ k >= 1 /\ k <= max_retries + 1
         /\ Count(t, "start") = k
         /\ Count(t, "failure") = k - 1
         /\ Count(t, "success") = 1
         /\ t[Len(t)] = TelemetryRecord(j, "success", k)
         /\ outcome[j].value[1].retries = k - 1

\* a job succeeded on its third attempt
C8_Witness ==
  \E j \in Jobs :
    /\ outcome[j].kind = "returned"
    /\ outcome[j].value # None
    /\ outcome[j].value[1].attempts = 3

ExpectedSleep(a) == IF a = 1 THEN 2 ELSE IF a = 2 THEN 4 ELSE 5

\* C10: after failed attempt a <= max_retries run_job sleeps min(2^a, 5)
\* seconds (2, 4, 5, 5, ...) before it starts attempt a + 1; after the last
\* failed attempt it raises without sleeping, so an always-failing job sleeps
\* exactly max_retries times.
C10_BackoffSchedule ==
  \A j \in Jobs :
    LET t == telemetry[j] IN
      /\ \A a \in DOMAIN sleeps[j] : sleeps[j][a] = ExpectedSleep(a)
      /\ Len(sleeps[j]) =
           Cardinality({ i \in DOMAIN t : t[i].status = "failure" /\ t[i].attempt <= max_retries })
      /\ Count(t, "start") <= Len(sleeps[j]) + 1
      /\ Exhausted(j) => Len(sleeps[j]) = max_retries

\* an always-failing job has slept 2, 4 and 5 seconds
C10_Witness ==
  \E j \in Jobs : Exhausted(j) /\ sleeps[j] = <<2, 4, 5>>


\* C11: in stub mode run_job always succeeds on the first attempt, whatever
\* the retry budget: one start event and one success event, a JobResult with
\* attempts = 1 and retries = 0, and no backoff sleep.
C11_StubSucceedsOnFirstAttempt ==
  runner_label = "stub" =>
    \A j \in Jobs :
      /\ outcome[j].kind # "raised"
      /\ sleeps[j] = <<>>
      /\ outcome[j].kind = "returned" =>
           /\ outcome[j].value = Some(JobResult(j, 1))
           /\ outcome[j].value[1].retries = 0
           /\ telemetry[j] = << TelemetryRecord(j, "start", 1),
                                TelemetryRecord(j, "success", 1) >>


\* the outcome map holds the success record that job j's worker stored
RecordedSuccess(j) ==
  /\ ChunkOf(j) \in DOMAIN job_results
  /\ job_results[ChunkOf(j)].status = "success"
  /\ job_results[ChunkOf(j)].recording_id = manifest[j].recording_id

\* C13: the success event of a chunk is appended to the log before the chunk
\* is recorded with status success in the job-outcome map, never after: when
\* the record is there, the call of run_job has returned, the success event
\* it logged is the last event of the chunk, and no call for the chunk is
\* still to run.
C13_SuccessEventBeforeRecord ==
  \A j \in Jobs :
    /\ Count(telemetry[j], "success") <= 1
    /\ RecordedSuccess(j) =>
         /\ outcome[j].kind = "returned"
         /\ started[j] = 1
         /\ \A w \in Workers :
              item[w] = j => pc[w] \notin {"dispatch", "call", "attempt", "exec", "ok"}
         /\ outcome[j].value # None =>
              /\ Count(telemetry[j], "success") = 1
              /\ telemetry[j][Len(telemetry[j])] =
                   TelemetryRecord(j, "success", outcome[j].value[1].attempts)

\* a chunk that succeeded on its second attempt is recorded as success
C13_Witness ==
  \E j \in Jobs :
    /\ RecordedSuccess(j)
    /\ outcome[j].value # None
    /\ outcome[j].value[1].attempts = 2
    /\ Len(telemetry[j]) = 4

\* file names of telemetry logs: up to three pieces
LogNames ==
  UNION { [1..n -> {"log", ".", "jsonl"}] : n \in 1..3 }

\* C14: each scheduler run writes its run summary exactly once, only after
\* the scheduler has finished (all worker threads joined), at the telemetry
\* log path with .summary.json appended; the summary is never updated while
\* jobs are running.
C14_SummaryWrittenOnceAfterFinish ==
  /\ main_pc \in {"raised", "done"} => summary_file # None
  /\ summary_file # None =>
       /\ main_pc = "done"
       /\ \A w \in Workers : pc[w] = "exited"
       /\ summary_file = Some([workers |-> stats, jobs |-> job_results])
  /\ \A name \in LogNames : TelemetrySummaryPath(name) = name \o SummarySuffix


\* the calls of log_telemetry that have returned
LogCallsDone == { <<t, k>> \in LogThreads \X (1..MaxLogCalls) : k <= log_done[t] }

\* positions of the file at which the complete line of call <<t, k>> stands
LinePositions(t, k) ==
  { i \in 1..(Len(log_file) - 1) :
      log_file[i] = LogLine(t, k)[1] /\ log_file[i + 1] = LogLine(t, k)[2] }

MarkedSuccess(job) ==
  /\ job.chunk_id \in DOMAIN resume_summary
  /\ resume_summary[job.chunk_id].is_dict
  /\ resume_summary[job.chunk_id].status = "success"
  /\ resume_summary[job.chunk_id].recording_id \in {Some(job.recording_id), None}

\* rows of the run's manifest that are to be kept, and the place of such a
\* row among the kept ones
KeptRows == { i \in DOMAIN resume_manifest : ~MarkedSuccess(resume_manifest[i]) }
RankOfRow(i) == Cardinality({ k \in KeptRows : k <= i })

\* C15: the resume filter removes every job whose (recordingId, chunkId) is
\* marked success in the summary, or whose chunkId is marked success with a
\* null recordingId, and keeps every other job (failed before, or without an
\* entry) in the original order.
C15_FilterRemovesExactlySucceeded ==
  resume_pc = "filtered" =>
    /\ Len(resume_jobs) = Cardinality(KeptRows)
    /\ \A i \in KeptRows : resume_jobs[RankOfRow(i)] = resume_manifest[i]

\* summary marking (r1, c1) success, manifest [(r1, c1), (r1, c2)]: the
\* result is [(r1, c2)]
C15_Witness ==
  /\ resume_pc = "filtered"
  /\ resume_summary = (1 :> [is_dict |-> TRUE, status |-> "success", recording_id |-> Some(1)])
  /\ resume_manifest = << InferenceJob(1, 1), InferenceJob(1, 2) >>
  /\ resume_jobs = << InferenceJob(1, 2) >>

\* C16: applying the filter with the same summary to a job list that is the
\* output of the filter removes nothing further.
C16_FilterIdempotent ==
  (resume_runs = 2 /\ resume_pc = "filtered") =>
    /\ resume_jobs = resume_first[1]
    /\ resume_jobs = resume_manifest
    /\ skipped_msg = None

\* the second run over a summary with a null-recording success entry, after a
\* first run that was left with one job of another chunk
C16_Witness ==
  /\ resume_runs = 2
  /\ resume_pc = "filtered"
  /\ Len(resume_first[1]) = 1
  /\ \E c \in DOMAIN resume_summary :
       /\ resume_summary[c] = [is_dict |-> TRUE, status |-> "success", recording_id |-> None]
       /\ resume_first[1][1].chunk_id # c

\* a count infer_run printed (nothing printed: zero)
Reported(msg) == IF msg = None THEN 0 ELSE msg[1]

\* success entries of the summary that match no job of the run's manifest
OrphanedEntries ==
  { c \in DOMAIN resume_summary :
      /\ resume_summary[c].is_dict
      /\ resume_summary[c].status = "success"
      /\ ~\E i \in DOMAIN resume_manifest :
            /\ resume_manifest[i].chunk_id = c
            /\ resume_summary[c].recording_id \in
                 {Some(resume_manifest[i].recording_id), None} }

\* C17: infer_run reports as skipped the number of jobs removed from the job
\* list, and as orphaned the number of success entries of the summary that
\* match no job of the manifest, also when a null-recordingId entry matches
\* several jobs.
C17_SkippedAndOrphanedCounts ==
  (resume_runs = 1 /\ resume_pc = "filtered") =>
    /\ Reported(skipped_msg) =
         Cardinality({ i \in DOMAIN resume_manifest : MarkedSuccess(resume_manifest[i]) })
    /\ Reported(orphaned_msg) = Cardinality(OrphanedEntries)


\* the slots of a pool that are bound to a GPU, and those that are not
GpuSlotsOf(pool) == { i \in DOMAIN pool : pool[i].gpu # None }
CpuSlotsOf(pool) == { i \in DOMAIN pool : pool[i].gpu = None }

CappedGpuCount ==
  IF max_gpus = None THEN Len(gpu_inventory)
  ELSE Max(Min(Len(gpu_inventory), max_gpus[1]), 0)

\* C19: the pool holds one GPU slot per detected GPU, limited to the first
\* maxGPUs devices when a cap is given (min(number detected, maxGPUs) slots),
\* in device-index order and labelled gpu-{index}, followed by the CPU slots
\* labelled cpu-0, cpu-1, ... in order.
C19_GpuSlotsThenCpuSlots ==
  pool_pc \in {"schedule", "running"} =>
    LET g == CappedGpuCount IN
      /\ Cardinality(GpuSlotsOf(worker_slots)) = g
      /\ Len(worker_slots) >= g
      /\ \A i \in 1..g :
           /\ worker_slots[i].gpu = Some(GPUWorker(gpu_inventory[i]))
           /\ worker_slots[i].label = << "gpu", gpu_inventory[i].index >>
      /\ \A i \in (g + 1)..Len(worker_slots) :
           worker_slots[i] = CpuSlot(i - g - 1)


\* min(requested maximum, audio duration), in ticks
RequestedUpper ==
  IF probe_args.max_duration_s = None THEN wav_meta.duration_s
  ELSE Min(probe_args.max_duration_s[1], wav_meta.duration_s)

\* C20: for every valid input of probe_chunk_duration the returned
\* max_duration_s lies in [tolerance, min(requested maximum, audio duration)].
C20_ResultWithinToleranceAndUpper ==
  probe_pc = "returned" =>
    /\ probe_result[1].max_duration_s * TicksPerSecond >= probe_args.tolerance_s * 100
    /\ probe_result[1].max_duration_s * TicksPerSecond <= RequestedUpper * 100

\* the recorded attempts of the result that fitted the memory budget
FittingAttempts ==
  { i \in DOMAIN probe_result[1].attempts : probe_result[1].attempts[i].fits }

\* C21: the duration probe_chunk_duration returns is the largest duration
\* among the recorded attempts whose fits flag is true (before rounding to two
\* decimals): it was tested, it fitted, and no larger tested duration fitted.
C21_ReturnsLargestFittingAttempt ==
  probe_pc = "returned" =>
    \E i \in FittingAttempts :
      /\ probe_result[1].max_duration_s =
           Round2(probe_result[1].attempts[i].duration_s)
      /\ \A j \in FittingAttempts :
           probe_result[1].attempts[j].duration_s <=
             probe_result[1].attempts[i].duration_s

\* estimate_mb <= memory_limit_mb for a chunk of the probed file d ticks long
FitsBudget(d) ==
  WithinLimit(EstimateVramMb(d, wav_meta.sample_rate, wav_meta.channels,
                             wav_meta.sample_width_bytes),
              MemoryLimitMb(probe_gpu))

\* the largest duration in lo..d whose estimate is within the budget, lo - 1
\* when there is none
RECURSIVE ScanDown(_, _)
ScanDown(lo, d) ==
  IF d < lo \/ FitsBudget(d) THEN d ELSE ScanDown(lo, d - 1)

\* the largest duration not above d whose estimate is within the budget (a
\* chunk of no length needs no memory), searched 64 ticks at a time
RECURSIVE LargestFitting(_)
LargestFitting(d) ==
  LET lo == (d \div 64) * 64
      found == ScanDown(lo, d)
  IN IF found >= lo \/ lo <= 0 THEN found ELSE LargestFitting(lo - 1)

\* B: the true boundary under min(explicit maximum, audio duration), in ticks
TrueBoundary == LargestFitting(RequestedUpper)

\* C22: the returned duration is within tolerance of the true boundary B, the
\* largest duration not above min(explicit maximum, audio duration) whose
\* memory estimate is within the budget: 0 <= B - returned <= tolerance.
C22_ResultWithinToleranceOfBoundary ==
  probe_pc = "returned" =>
    LET returned == probe_result[1].max_duration_s * TicksPerSecond
        boundary == TrueBoundary * 100
    IN /\ boundary - returned >= 0
       /\ boundary - returned <= probe_args.tolerance_s * 100

\* durations every 32 ticks up to four seconds, each compared with the next
DurationGrid == { 32 * k : k \in 0..127 }

\* the estimate for a chunk of the probed file d ticks long
EstimateOf(d) ==
  EstimateVramMb(d, wav_meta.sample_rate, wav_meta.channels,
                 wav_meta.sample_width_bytes)

C24_InvalidArgumentsFailFirst ==
  (probe_args.initial_duration_s <= 0 \/ probe_args.tolerance_s <= 0) =>
    /\ probe_pc \in {"call", "raised"}
    /\ probe_pc = "call" => ENABLED ProbeRejects /\ ~ENABLED ProbeSetup
    /\ probe_pc = "raised" => probe_error = Some("ValueError")
    /\ probe_attempts = <<>>
    /\ probe_log = <<>>
    /\ probe_result = None

\* a call with tolerance 0 and a valid initial duration has raised ValueError
C24_Witness ==
  /\ probe_pc = "raised"
  /\ probe_args.initial_duration_s > 0
  /\ probe_args.tolerance_s = 0
  /\ wav_meta.duration_s > 0
  /\ probe_error = Some("ValueError")
  /\ probe_log = <<>>

\* the sum of f[1], ..., f[n]
RECURSIVE SumUpTo(_, _)
SumUpTo(f, n) == IF n = 0 THEN 0 ELSE f[n] + SumUpTo(f, n - 1)

\* the jobs whose run_job call returned, and those whose call raised, on w
ReturnedOn(w) ==
  { j \in Jobs : outcome[j].kind = "returned" /\ outcome[j].worker = w }
RaisedOn(w) ==
  { j \in Jobs : outcome[j].kind = "raised" /\ outcome[j].worker = w }

\* JobResult.retries summed over the jobs that returned on w
RetriesOn(w) ==
  SumUpTo([j \in Jobs |->
             IF j \in ReturnedOn(w) /\ outcome[j].value # None
             THEN outcome[j].value[1].retries ELSE 0],
          Len(manifest))

\* attempts - 1 summed over the JobExecutionErrors raised on w
FailedRetriesOn(w) ==
  SumUpTo([j \in Jobs |->
             IF j \in RaisedOn(w) /\ outcome[j].error.kind = "JobExecutionError"
             THEN outcome[j].error.attempts[1] - 1 ELSE 0],
          Len(manifest))

ExpectedResultFiles ==
  { [recording_id |-> manifest[j].recording_id, chunk_id |-> manifest[j].chunk_id] :
      j \in Jobs }

\* C26: with the stub detector a run over N jobs and W >= 1 worker slots ends
\* without error with all N jobs succeeded: the success counts summed over
\* the workers equal N, every failure count is 0, and one result file exists
\* per job at {outputDir}/{recordingId}/{chunkId}.json.
C26_StubRunSucceedsForAllJobs ==
  (runner_label = "stub" /\ Finished) =>
    /\ main_pc # "raised"
    /\ errors = <<>>
    /\ SumUpTo([w \in Workers |-> stats[w].success], nworkers) = Len(manifest)
    /\ \A w \in Workers : stats[w].failure = 0
    /\ result_files = ExpectedResultFiles
    /\ Cardinality(result_files) = Len(manifest)

\* getattr(e, name, None) on an exception of the run
AttributeOf(e, name) == IF name \in DOMAIN e THEN Some(e[name]) ELSE None

\* C27: when run_job exhausts its retry budget with a detector that always
\* exits non-zero, for every retry budget including 0, the JobExecutionError
\* it raises carries a non-null last backoff delay (last_backoff_s) and a
\* non-empty description of the last error (last_error).
C27_ErrorCarriesBackoffMetadata ==
  \A j \in Jobs :
    (outcome[j].kind = "raised" /\ outcome[j].error.kind = "JobExecutionError") =>
      /\ AttributeOf(outcome[j].error, "last_backoff_s") # None
      /\ AttributeOf(outcome[j].error, "last_error") # None
      /\ AttributeOf(outcome[j].error, "last_error") # Some(<<>>)

\* the search's upper bound: min(explicit maximum, audio duration), floored
\* at the tolerance
SearchUpper == Max(probe_args.tolerance_s, RequestedUpper)

\* C28: every duration probe_chunk_duration evaluates and writes to the probe
\* log is positive and exceeds neither the requested maximum duration nor the
\* search's upper bound (min(explicit maximum, audio duration), floored at
\* tolerance), in the halving phase and in the binary-search phase.
C28_LoggedDurationsWithinBounds ==
  /\ Len(probe_log) = Len(probe_attempts)
  /\ \A i \in DOMAIN probe_log :
       /\ probe_log[i].duration_s = probe_attempts[i].duration_s
       /\ probe_log[i].duration_s > 0
       /\ probe_args.max_duration_s # None =>
            probe_log[i].duration_s <= probe_args.max_duration_s[1]
       /\ probe_log[i].duration_s <= SearchUpper

\* the recorded attempts that fitted, and those that did not
FittedSoFar == { i \in DOMAIN probe_attempts : probe_attempts[i].fits }
FailedSoFar == { i \in DOMAIN probe_attempts : ~probe_attempts[i].fits }

\* the duration of the most recent attempt among those numbered in S
MostRecent(S) ==
  probe_attempts[CHOOSE i \in S : \A k \in S : k <= i].duration_s

\* C30: at every step of the halving and binary-search loops low is a
\* duration that was evaluated and fitted the budget (the most recent fitting
\* one), high is the most recent evaluated duration that did not fit, or the
\* original upper bound when nothing has failed yet, and low <= high.
\* (While the halving loop runs nothing has fitted yet and low is still 0.)
C30_SearchInvariant ==
  probe_pc \in {"halve", "bisect"} =>
    /\ probe_pc = "bisect" => FittedSoFar # {}
    /\ low_success = IF FittedSoFar # {} THEN MostRecent(FittedSoFar) ELSE 0
    /\ high_failure =
         IF FailedSoFar # {} THEN MostRecent(FailedSoFar) ELSE max_duration
    /\ low_success <= high_failure

\* the workers that have taken a termination sentinel off the queue
TookSentinel ==
  { w \in Workers : pc[w] \in {"dispatch", "exited"} /\ item[w] = Sentinel }

\* the sentinels still queued
QueuedSentinels == { i \in DOMAIN job_queue : job_queue[i] = Sentinel }

\* a worker leaves its loop only at a sentinel, every sentinel is either
\* queued or held by the one worker that took it, and while a job is queued
\* no sentinel has been taken
SentinelDiscipline ==
  /\ \A w \in Workers : pc[w] = "exited" => item[w] = Sentinel
  /\ Cardinality(QueuedSentinels) + Cardinality(TookSentinel) = nworkers
  /\ TookSentinel # {} => \A i \in DOMAIN job_queue : job_queue[i] = Sentinel
  /\ main_pc # "join_queue" => job_queue = <<>>

\* C29: for every number of jobs and of worker slots, whether or not jobs
\* fail, every worker thread eventually exits, each worker consumes exactly
\* one termination sentinel, no sentinel is dequeued before all jobs have
\* been dequeued, and _run_scheduler eventually returns or raises; a worker
\* that caught an error or is skipping under the stop flag keeps dequeuing
\* until it takes its sentinel.
C29_SchedulerTerminates ==
  /\ []SentinelDiscipline
  /\ <>[](\A w \in Workers : pc[w] = "exited")
  /\ <>(raised # None \/ scheduler_summary # None)

\* one worker, two jobs: the first job's error was caught, the second job was
\* dequeued and skipped under the stop flag, the worker then took the
\* sentinel and exited, and _run_scheduler raised
C29_Witness ==
  /\ main_pc = "raised"
  /\ nworkers = 1
  /\ Len(manifest) = 2
  /\ deq_after_stop[2]
  /\ pc[1] = "exited"
  /\ job_queue = <<>>
  /\ stats[1].failure = 1

\* C31: probe_chunk_duration terminates for every valid input: the halving
\* phase stops at the first fitting candidate or when the candidate reaches
\* the tolerance floor (each candidate is max(tolerance, previous / 2)), the
\* binary search strictly shrinks high - low on every iteration, and on exit
\* high - low <= tolerance.
C31_ProbeTerminates ==
  /\ [][ProbeHalve =>
          /\ candidate' = Max(probe_args.tolerance_s, Half(candidate))
          /\ candidate > probe_args.tolerance_s
          /\ fits' => probe_pc' = "bisect"]_vars
  /\ [][ProbeBisect =>
          high_failure' - low_success' < high_failure - low_success]_vars
  /\ [](probe_pc = "returned" =>
          high_failure - low_success <= probe_args.tolerance_s)
  /\ <>(probe_pc \in {"returned", "raised"})

\* The fields an attempt and a log line have in common
AttemptFields(r) ==
  << r.duration_s, r.estimated_vram_mb, r.fits, r.reason >>

\* A step of the call that evaluates a candidate
ProbeEvaluates == ProbeFirst \/ ProbeHalve \/ ProbeBisect

\* C32: every evaluation of probe_chunk_duration adds exactly one attempt to
\* the in-memory list and exactly one line to the probe log, both carrying
\* the evaluated duration and the evaluation's estimate, fit and reason; no
\* other step touches either; so at every moment, and for the returned
\* tuple, attempts and appended lines have the same length and the same
\* sequence of (duration, estimate, fits, reason).
C32_AttemptsMatchLogLines ==
  /\ [][ProbeEvaluates =>
          LET ev == Evaluate(candidate')
              expected == << candidate', ev.estimate_mb, ev.fits, ev.reason >>
          IN /\ Len(probe_attempts') = Len(probe_attempts) + 1
             /\ Len(probe_log') = Len(probe_log) + 1
             /\ SubSeq(probe_attempts', 1, Len(probe_attempts)) = probe_attempts
             /\ SubSeq(probe_log', 1, Len(probe_log)) = probe_log
             /\ AttemptFields(probe_attempts'[Len(probe_attempts')]) = expected
             /\ AttemptFields(probe_log'[Len(probe_log')]) = expected]_vars
  /\ [][~ProbeEvaluates => UNCHANGED << probe_attempts, probe_log >>]_vars
  /\ [](/\ Len(probe_attempts) = Len(probe_log)
        /\ \A i \in DOMAIN probe_log :
             AttemptFields(probe_attempts[i]) = AttemptFields(probe_log[i]))
  /\ [](probe_result # None =>
          /\ Len(probe_result[1].attempts) = Len(probe_log)
          /\ \A i \in DOMAIN probe_log :
               AttemptFields(probe_result[1].attempts[i])
                 = AttemptFields(probe_log[i]))

\* A call returned after a failing first candidate, a halving pass and
\* binary-search passes
C32_Witness ==
  /\ probe_pc = "returned"
  /\ probe_result # None
  /\ Len(probe_result[1].attempts) >= 4
  /\ \E i, j \in DOMAIN probe_log : probe_log[i].fits /\ ~probe_log[j].fits

\* The jobs still in the shared queue
InQueue(q) == { q[i] : i \in DOMAIN q } \ {Sentinel}

\* C33: jobs leave the shared queue in manifest order: whenever job j is
\* dequeued, every job before it in the manifest has left the queue already,
\* whichever worker takes it; each dequeue takes one item.  (The order in
\* which jobs complete is free: C33_Witness is a state where a later job
\* has completed and an earlier one has not.)
C33_DequeuedInManifestOrder ==
  [][\A j \in InQueue(job_queue) \ InQueue(job_queue') :
        /\ \A i \in 1..(j - 1) : i \notin InQueue(job_queue)
        /\ InQueue(job_queue) \ InQueue(job_queue') = {j}
        /\ \E w \in Workers : item'[w] = j /\ pc[w] = "get"]_vars

\* Two workers: job 1 was dequeued first and is still running, job 2 was
\* dequeued after it and has already completed
C33_Witness ==
  /\ Len(manifest) >= 2
  /\ InQueue(job_queue) = {}
  /\ outcome[1] = Pending
  /\ started[1] = 1
  /\ outcome[2].kind = "returned"

\* A thread is inside an update of the statistics map / of the outcome map
InStatsUpdate(t) == upd_pc[t] \in {"read", "write", "release_stats"}
InJobUpdate(t) == upd_pc[t] \in {"store", "release_job"}

\* The threads of a label whose outcome satisfies P and has been counted
CountedThreads(label, kinds, amounts) ==
  { t \in LockThreads : /\ upd_label[t] = label
                        /\ upd_pc[t] \in {"acquire_job", "store",
                                          "release_job", "recorded"}
                        /\ upd_outcome[t].kind \in kinds
                        /\ upd_outcome[t].amount \in amounts }

Failures == {"JobExecutionError", "Exception"}

ResultFileOf(j) ==
  [recording_id |-> manifest[j].recording_id, chunk_id |-> manifest[j].chunk_id]

\* C35: a job dequeued while the stop flag is set is skipped without effect.
\* The step a worker takes with such a job changes no telemetry, result
\* file, statistic, captured error, outcome entry or flag, starts no run_job
\* call and takes nothing more from the queue: it marks the item done and the
\* worker goes back to the queue.  And at every moment such a job has had no
\* run_job call, no telemetry event and no result file.
C35_SkippedJobHasNoEffect ==
  /\ [][\A w \in Workers :
          (/\ pc[w] = "dispatch"
           /\ item[w] # Sentinel
           /\ stop_event
           /\ pc'[w] # pc[w]) =>
             /\ pc'[w] = "get"
             /\ unfinished' = unfinished - 1
             /\ UNCHANGED << telemetry, sleeps, result_files, stats, errors,
                             stop_event, job_results, started, outcome,
                             job_queue, attempts >>]_vars
  /\ [](\A j \in Jobs :
          deq_after_stop[j] =>
            /\ started[j] = 0
            /\ telemetry[j] = <<>>
            /\ outcome[j] = Pending
            /\ (\A i \in Jobs : ResultFileOf(i) = ResultFileOf(j) => started[i] = 0)
                 => ResultFileOf(j) \notin result_files)

\* A worker has skipped a job: it was dequeued with the flag set, and the
\* worker is back at the queue with the item marked done
C35_Witness ==
  \E w \in Workers :
    /\ pc[w] = "get"
    /\ item[w] # Sentinel
    /\ deq_after_stop[item[w]]
    /\ stop_event

\* The job a stored outcome entry belongs to
JobsOfEntry(c) ==
  { j \in Jobs : /\ manifest[j].chunk_id = c
                 /\ manifest[j].recording_id = job_results[c].recording_id }

\* C36: every chunk recorded with status success was executed: its record
\* carries attempts >= 1, a success event for it is in the log and its
\* result file was written, whatever integer the retry budget is.
C36_RecordedSuccessWasExecuted ==
  \A c \in DOMAIN job_results :
    job_results[c].status = "success" =>
      /\ job_results[c].attempts # None
      /\ job_results[c].attempts[1] >= 1
      /\ \A j \in JobsOfEntry(c) :
           /\ \E i \in DOMAIN telemetry[j] : telemetry[j][i].status = "success"
           /\ ResultFileOf(j) \in result_files

\* C37: the telemetry events of each job are well-formed: they alternate
\* between a start event and its answer, the k-th start carrying attempt k
\* and being followed by one success or failure event with the same attempt
\* number before the next start; and once run_job has returned or raised,
\* the last start has its answer, however the detector invocation failed.
C37_TelemetryWellFormed ==
  \A j \in Jobs :
    /\ \A i \in DOMAIN telemetry[j] :
         IF i % 2 = 1
         THEN /\ telemetry[j][i].status = "start"
              /\ telemetry[j][i].attempt = (i + 1) \div 2
         ELSE /\ telemetry[j][i].status \in {"success", "failure"}
              /\ telemetry[j][i].attempt = i \div 2
    /\ outcome[j] # Pending => Len(telemetry[j]) % 2 = 0

\* C38: across a sequence of runs that each resume from the summary left at
\* the derived summary path, no chunk that succeeded in an earlier run is
\* executed again in a later one, also when the manifest gains chunks
\* between the runs.
C38_SucceededChunkNeverRerun == runs_repeated = {}

\* The "jobs" object of a summary file as a later run reads it back: each
\* entry a JSON object with the status and the recording_id that were stored
SummaryAsRead(jobs) ==
  [c \in DOMAIN jobs |->
     [is_dict |-> TRUE, status |-> jobs[c].status,
      recording_id |-> Some(jobs[c].recording_id)]]

\* C39: after a run that completed without error and wrote its summary, the
\* resume filter applied with that summary to the jobs of the same manifest
\* leaves no job, whatever the manifest, shared chunk ids included.
C39_ResumeAfterCompleteRunIsEmpty ==
  main_pc = "done" =>
    FilterJobs(manifest,
               LoadResumeChunks(SummaryAsRead(summary_file[1].jobs))) = <<>>

\* C40: with exactly one worker slot the jobs are executed one after another
\* in manifest order (a job starts only when every job before it has
\* returned), and once a job has failed terminally no later job is executed:
\* no later job is handed to run_job or has any telemetry event, exactly one
\* error is captured, and it is the one raised.
C40_SingleWorkerStopsAtFirstFailure ==
  nworkers = 1 =>
    /\ \A j \in Jobs :
         started[j] >= 1 =>
           \A i \in 1..(j - 1) : outcome[i].kind = "returned"
    /\ \A i \in Jobs :
         outcome[i].kind = "raised" =>
           \A j \in Jobs : j > i => started[j] = 0 /\ telemetry[j] = <<>>
    /\ Len(errors) <= 1
    /\ (\E i \in Jobs : outcome[i].kind = "raised" /\ pc[1] \notin {"except"})
         => Len(errors) = 1
    /\ Finished =>
         IF \E i \in Jobs : outcome[i].kind = "raised"
         THEN /\ main_pc = "raised"
              /\ Len(errors) = 1
              /\ raised = Some(errors[1])
              /\ \E i \in Jobs : outcome[i] = Raised(errors[1], 1)
         ELSE main_pc # "raised" /\ errors = <<>>

\* One worker, three jobs: the first returned, the second failed terminally,
\* the third was never executed, and the error was raised
C40_Witness ==
  /\ nworkers = 1
  /\ Len(manifest) = 3
  /\ outcome[1].kind = "returned"
  /\ outcome[2].kind = "raised"
  /\ started[3] = 0
  /\ telemetry[3] = <<>>
  /\ main_pc = "raised"
====
